---------------------------- MODULE Spec2Model ----------------------------
(***************************************************************************)
(* Model of src/python_api/_kmeans_lloyd.cpp: the host entry points of the *)
(* K-means (Lloyd) kernels.  Every entry point validates its array         *)
(* arguments, dispatches a kernel template on the arrays' element and      *)
(* index types, submits a keep-alive host task and returns the pair        *)
(* (keep-alive event, computation event).                                  *)
(*                                                                         *)
(* Array contents are small naturals: values that single and double        *)
(* precision represent exactly, so that sums and products of the model are *)
(* the sums and products of the kernels.                                   *)
(***************************************************************************)
EXTENDS Integers, Sequences, FiniteSets, TLC

VARIABLES
  mem,     \* buffer name -> flat (C-order) contents of the allocation
  tasks,   \* device tasks submitted so far, in submission order
  done,    \* events that have completed
  ret,     \* what the last host call returned or raised
  pre,     \* the arguments and the memory at the time of the last host call
  wi,      \* progress of the work-items of the kernel that is running
  arrs     \* the usm_ndarray objects the caller holds, by name

vars == <<mem, tasks, done, ret, pre, wi, arrs>>

----------------------------------------------------------------------------
(* Bounds of the model. *)

MaxFeatures == 2    \* n_features
MaxSamples == 3     \* n_samples
MaxThresholdLen == 2  \* n_samples of the arrays given to compute_threshold
MaxClusters == 2    \* n_clusters
MaxCopies == 2      \* n_copies (private copies)
MaxBlock == 2       \* largest number of samples in one assignment call
MaxEmpty == 2       \* largest number of clusters relocated in one call
MaxDistance == 2    \* largest distance, weight and coordinate drawn
MaxPattern == 2     \* number of contents drawn for a coordinate array
MaxWindow == 3      \* largest window height and number of centroids in a tuned call
MaxCentroids == 3   \* n_clusters of an iteration
WordBase == 4       \* number of values a 4-byte word takes in the model

----------------------------------------------------------------------------
(* Element types (dpctl typenums) and events. *)

UAR_FLOAT_ == "float"
UAR_DOUBLE_ == "double"
UAR_INT32_ == "int32"
UAR_INT64_ == "int64"
UAR_HALF_ == "half"

TypeNums == {UAR_FLOAT_, UAR_DOUBLE_, UAR_INT32_, UAR_INT64_, UAR_HALF_}

NoEvent == -1       \* no event was returned (the call raised)
ReadyEvent == 0     \* a default-constructed sycl::event: complete from the start
PredEvent == -2     \* an event of the caller, passed in depends

ExecQueue == 0      \* the execution queue q of every call
OtherQueue == 1     \* a queue that is not compatible with q

----------------------------------------------------------------------------
(* usm_ndarray: what the entry points read of an array argument. *)

RECURSIVE Product(_)
Product(s) == IF s = <<>> THEN 1 ELSE Head(s) * Product(Tail(s))

Arr(buf, shape, typenum) ==
  [buf |-> buf, shape |-> shape, contig |-> TRUE, typenum |-> typenum,
   queue |-> ExecQueue]

get_ndim(x) == Len(x.shape)
get_shape(x, i) == x.shape[i + 1]
get_size(x) == Product(x.shape)
get_typenum(x) == x.typenum
get_queue(x) == x.queue
is_c_contiguous(x) == x.contig

all_c_contiguous(args) == \A i \in 1..Len(args) : is_c_contiguous(args[i])

queues_are_compatible(q, queues) == \A i \in 1..Len(queues) : queues[i] = q

RECURSIVE Bufs(_)
Bufs(args) == IF args = <<>> THEN <<>> ELSE <<Head(args).buf>> \o Bufs(Tail(args))

----------------------------------------------------------------------------
(* Outcome of an entry point: the exception it threw, the kernel it        *)
(* submitted (with the template arguments and the call's arguments in the  *)
(* order of the call), and the arrays its keep-alive task holds.           *)

Kernel(name, dataT, indT, p, bufs, depends) ==
  [name |-> name, dataT |-> dataT, indT |-> indT, p |-> p, bufs |-> bufs,
   depends |-> depends]

NoType == "none"

Raise(msg) ==
  [raised |-> TRUE, msg |-> msg, kernels |-> <<>>, keep |-> <<>>, ready |-> FALSE]

Submitted(k, held) ==
  [raised |-> FALSE, msg |-> "", kernels |-> <<k>>, keep |-> <<Bufs(held)>>,
   ready |-> FALSE]

ReturnedReady ==
  [raised |-> FALSE, msg |-> "", kernels |-> <<>>, keep |-> <<>>, ready |-> TRUE]

----------------------------------------------------------------------------
(* The entry points.  Each is the chain of checks of the source, in the    *)
(* order of the source, then the dispatch on the typenums.                 *)

(* py_broadcast_divide with the comparison of the two typenums made after  *)
(* the dispatch: the kernel of y's type is submitted, then the mismatch is *)
(* thrown.                                                                 *)
py_broadcast_divide_CheckAfterSubmit(X, y, q, depends) ==
  IF get_ndim(X) # 2 \/ get_ndim(y) # 1 \/ ~all_c_contiguous(<<X, y>>)
  THEN Raise("Arguments must be a matrix and a vector with C-contiguous layout")
  ELSE IF get_shape(y, 0) # get_shape(X, 1)
  THEN Raise("Array dimensions of arguments are not consistent, X.shape[1] != y.shape[0]")
  ELSE IF ~queues_are_compatible(q, <<get_queue(X), get_queue(y)>>)
  THEN Raise("Execution queue is not compatible with allocation queues")
  ELSE
    LET y_typenum == get_typenum(y)
        run(T) == Kernel("broadcast_division_kernel", T, NoType,
                         <<get_shape(X, 0), get_shape(X, 1), 32>>,
                         Bufs(<<X, y>>), depends)
        late(o) == IF get_typenum(X) # y_typenum
                   THEN [o EXCEPT !.raised = TRUE,
                                  !.msg = "Arguments must have the same elemental data types.",
                                  !.keep = <<>>]
                   ELSE o
    IN IF y_typenum = UAR_FLOAT_ THEN late(Submitted(run(UAR_FLOAT_), <<X, y>>))
       ELSE IF y_typenum = UAR_DOUBLE_ THEN late(Submitted(run(UAR_DOUBLE_), <<X, y>>))
       ELSE Raise("Unsupported elemental data type. Expecting single or double precision floating point numbers")

py_broadcast_divide(X, y, q, depends) ==
  IF get_ndim(X) # 2 \/ get_ndim(y) # 1 \/ ~all_c_contiguous(<<X, y>>)
  THEN Raise("Arguments must be a matrix and a vector with C-contiguous layout")
  ELSE IF get_shape(y, 0) # get_shape(X, 1)
  THEN Raise("Array dimensions of arguments are not consistent, X.shape[1] != y.shape[0]")
  ELSE IF ~queues_are_compatible(q, <<get_queue(X), get_queue(y)>>)
  THEN Raise("Execution queue is not compatible with allocation queues")
  ELSE IF get_typenum(X) # get_typenum(y)
  THEN Raise("Arguments must have the same elemental data types.")
  ELSE
    LET y_typenum == get_typenum(y)
        run(T) == Kernel("broadcast_division_kernel", T, NoType,
                         <<get_shape(X, 0), get_shape(X, 1), 32>>,
                         Bufs(<<X, y>>), depends)
    IN IF y_typenum = UAR_FLOAT_ THEN Submitted(run(UAR_FLOAT_), <<X, y>>)
       ELSE IF y_typenum = UAR_DOUBLE_ THEN Submitted(run(UAR_DOUBLE_), <<X, y>>)
       ELSE Raise("Unsupported elemental data type. Expecting single or double precision floating point numbers")

(* py_half_l2_norm_squared comparing y.shape[0] with X.shape[0]. *)
py_half_l2_norm_squared_RowCount(X, y, q, depends) ==
  IF get_ndim(X) # 2 \/ get_ndim(y) # 1 \/ ~all_c_contiguous(<<X, y>>)
  THEN Raise("Arguments must be a matrix and a vector with C-contiguous layout")
  ELSE IF get_shape(y, 0) # get_shape(X, 0)
  THEN Raise("Array dimensions of arguments are not consistent, X.shape[1] != y.shape[0]")
  ELSE IF ~queues_are_compatible(q, <<get_queue(X), get_queue(y)>>)
  THEN Raise("Execution queue is not compatible with allocation queues")
  ELSE IF get_typenum(X) # get_typenum(y)
  THEN Raise("Arguments must have the same elemental data types.")
  ELSE
    LET y_typenum == get_typenum(y)
        run(T) == Kernel("half_l2_norm_kernel", T, NoType,
                         <<get_shape(X, 0), get_shape(X, 1), 32>>,
                         Bufs(<<X, y>>), depends)
    IN IF y_typenum = UAR_FLOAT_ THEN Submitted(run(UAR_FLOAT_), <<X, y>>)
       ELSE IF y_typenum = UAR_DOUBLE_ THEN Submitted(run(UAR_DOUBLE_), <<X, y>>)
       ELSE Raise("Unsupported elemental data type. Expecting single or double precision floating point numbers")

py_half_l2_norm_squared(X, y, q, depends) ==
  IF get_ndim(X) # 2 \/ get_ndim(y) # 1 \/ ~all_c_contiguous(<<X, y>>)
  THEN Raise("Arguments must be a matrix and a vector with C-contiguous layout")
  ELSE IF get_shape(y, 0) # get_shape(X, 1)
  THEN Raise("Array dimensions of arguments are not consistent, X.shape[1] != y.shape[0]")
  ELSE IF ~queues_are_compatible(q, <<get_queue(X), get_queue(y)>>)
  THEN Raise("Execution queue is not compatible with allocation queues")
  ELSE IF get_typenum(X) # get_typenum(y)
  THEN Raise("Arguments must have the same elemental data types.")
  ELSE
    LET y_typenum == get_typenum(y)
        run(T) == Kernel("half_l2_norm_kernel", T, NoType,
                         <<get_shape(X, 0), get_shape(X, 1), 32>>,
                         Bufs(<<X, y>>), depends)
    IN IF y_typenum = UAR_FLOAT_ THEN Submitted(run(UAR_FLOAT_), <<X, y>>)
       ELSE IF y_typenum = UAR_DOUBLE_ THEN Submitted(run(UAR_DOUBLE_), <<X, y>>)
       ELSE Raise("Unsupported elemental data type. Expecting single or double precision floating point numbers")

(* dispatch_reduce_centroids_data with the double-precision, 64-bit branch *)
(* declaring "using dataT = float".                                        *)
dispatch_reduce_centroids_data_FloatForDouble(dataT_typenum, indT_typenum, p, all, depends) ==
  LET run(dataT, indT) ==
        Kernel("reduce_centroid_data_kernel", dataT, indT, p, Bufs(all), depends)
  IN
  IF dataT_typenum = UAR_FLOAT_ /\ indT_typenum = UAR_INT32_
  THEN Submitted(run(UAR_FLOAT_, UAR_INT32_), all)
  ELSE IF dataT_typenum = UAR_FLOAT_ /\ indT_typenum = UAR_INT64_
  THEN Submitted(run(UAR_FLOAT_, UAR_INT64_), all)
  ELSE IF dataT_typenum = UAR_DOUBLE_ /\ indT_typenum = UAR_INT32_
  THEN Submitted(run(UAR_DOUBLE_, UAR_INT32_), all)
  ELSE IF dataT_typenum = UAR_DOUBLE_ /\ indT_typenum = UAR_INT64_
  THEN Submitted(run(UAR_FLOAT_, UAR_INT64_), all)
  ELSE Raise("Unsupported data types")

(* dispatch_reduce_centroids_data with the double-precision, 64-bit branch *)
(* declaring "using indT = std::int32_t".                                  *)
dispatch_reduce_centroids_data_Int32ForInt64(dataT_typenum, indT_typenum, p, all, depends) ==
  LET run(dataT, indT) ==
        Kernel("reduce_centroid_data_kernel", dataT, indT, p, Bufs(all), depends)
  IN
  IF dataT_typenum = UAR_FLOAT_ /\ indT_typenum = UAR_INT32_
  THEN Submitted(run(UAR_FLOAT_, UAR_INT32_), all)
  ELSE IF dataT_typenum = UAR_FLOAT_ /\ indT_typenum = UAR_INT64_
  THEN Submitted(run(UAR_FLOAT_, UAR_INT64_), all)
  ELSE IF dataT_typenum = UAR_DOUBLE_ /\ indT_typenum = UAR_INT32_
  THEN Submitted(run(UAR_DOUBLE_, UAR_INT32_), all)
  ELSE IF dataT_typenum = UAR_DOUBLE_ /\ indT_typenum = UAR_INT64_
  THEN Submitted(run(UAR_DOUBLE_, UAR_INT32_), all)
  ELSE Raise("Unsupported data types")

(* The dispatch of py_reduce_centroids_data on the two typenums: p are the  *)
(* leading arguments of the kernel (n_copies, n_features, n_clusters,      *)
(* work_group_size), all the arrays in the order of the call.              *)
dispatch_reduce_centroids_data(dataT_typenum, indT_typenum, p, all, depends) ==
  LET run(dataT, indT) ==
        Kernel("reduce_centroid_data_kernel", dataT, indT, p, Bufs(all), depends)
  IN
  IF dataT_typenum = UAR_FLOAT_ /\ indT_typenum = UAR_INT32_
  THEN Submitted(run(UAR_FLOAT_, UAR_INT32_), all)
  ELSE IF dataT_typenum = UAR_FLOAT_ /\ indT_typenum = UAR_INT64_
  THEN Submitted(run(UAR_FLOAT_, UAR_INT64_), all)
  ELSE IF dataT_typenum = UAR_DOUBLE_ /\ indT_typenum = UAR_INT32_
  THEN Submitted(run(UAR_DOUBLE_, UAR_INT32_), all)
  ELSE IF dataT_typenum = UAR_DOUBLE_ /\ indT_typenum = UAR_INT64_
  THEN Submitted(run(UAR_DOUBLE_, UAR_INT64_), all)
  ELSE Raise("Unsupported data types")

py_reduce_centroids_data(cluster_sizes_private_copies, centroids_t_private_copies, out_cluster_sizes, out_centroids_t, out_empty_clusters_list, out_n_empty_clusters, q, depends) ==
  IF \/ get_ndim(cluster_sizes_private_copies) # 2
     \/ get_ndim(centroids_t_private_copies) # 3
     \/ get_ndim(out_cluster_sizes) # 1
     \/ get_ndim(out_centroids_t) # 2
     \/ get_ndim(out_empty_clusters_list) # 1
     \/ get_size(out_n_empty_clusters) # 1
  THEN Raise("Array dimensions of inputs are not consistent")
  ELSE
    LET n_copies == get_shape(cluster_sizes_private_copies, 0)
        n_clusters == get_shape(cluster_sizes_private_copies, 1)
        n_features == get_shape(centroids_t_private_copies, 1)
        dataT_typenum == get_typenum(cluster_sizes_private_copies)
        indT_typenum == get_typenum(out_n_empty_clusters)
        all == <<cluster_sizes_private_copies, centroids_t_private_copies,
                 out_cluster_sizes, out_centroids_t, out_empty_clusters_list,
                 out_n_empty_clusters>>
    IN
    IF \/ n_copies # get_shape(centroids_t_private_copies, 0)
       \/ n_clusters # get_shape(centroids_t_private_copies, 2)
       \/ n_clusters # get_shape(out_cluster_sizes, 0)
       \/ n_clusters # get_shape(out_centroids_t, 1)
       \/ n_features # get_shape(out_centroids_t, 0)
       \/ n_clusters # get_shape(out_empty_clusters_list, 0)
    THEN Raise("Dimensions mismatch")
    ELSE IF \/ dataT_typenum # get_typenum(centroids_t_private_copies)
            \/ dataT_typenum # get_typenum(out_cluster_sizes)
            \/ dataT_typenum # get_typenum(out_centroids_t)
            \/ indT_typenum # get_typenum(out_empty_clusters_list)
    THEN Raise("Array element data types must be consisten")
    ELSE IF ~all_c_contiguous(all)
    THEN Raise("All array arguments must be C-contiguous")
    ELSE IF ~queues_are_compatible(q, <<get_queue(all[1]), get_queue(all[2]),
                 get_queue(all[3]), get_queue(all[4]), get_queue(all[5]),
                 get_queue(all[6])>>)
    THEN Raise("Execution queue is not compatible with allocation queues")
    ELSE dispatch_reduce_centroids_data(dataT_typenum, indT_typenum,
           <<n_copies, n_features, n_clusters, 256>>, all, depends)

(* py_compute_threshold treating topk = 0 as the other entry points treat   *)
(* a zero scalar: as an invalid argument.                                  *)
py_compute_threshold_ZeroTopkRaises(data, topk, threshold, q, depends) ==
  IF get_ndim(data) # 1 \/ ~all_c_contiguous(<<data, threshold>>)
  THEN Raise("Argument data must be a C-contiguous vector")
  ELSE IF get_size(threshold) # 1
  THEN Raise("Argument threshold must be 1-element array")
  ELSE IF get_typenum(data) # get_typenum(threshold)
  THEN Raise("Data types of arguments must be the same")
  ELSE IF ~queues_are_compatible(q, <<get_queue(data), get_queue(threshold)>>)
  THEN Raise("Execution queue is not compatible with allocation queues")
  ELSE
    LET data_typenum == get_typenum(data)
        n_samples == get_shape(data, 0)
        run(dataT) == Kernel("compute_threshold_kernel", dataT, NoType,
                             <<n_samples, topk>>, Bufs(<<data, threshold>>),
                             depends)
    IN IF topk = 0 THEN Raise("Argument topk must be positive")
       ELSE IF data_typenum = UAR_FLOAT_
       THEN Submitted(run(UAR_FLOAT_), <<data, threshold>>)
       ELSE IF data_typenum = UAR_DOUBLE_
       THEN Submitted(run(UAR_FLOAT_), <<data, threshold>>)
       ELSE Raise("Unsupported elemental data type. Expect single- or double- floating-point types.")

py_compute_threshold(data, topk, threshold, q, depends) ==
  IF get_ndim(data) # 1 \/ ~all_c_contiguous(<<data, threshold>>)
  THEN Raise("Argument data must be a C-contiguous vector")
  ELSE IF get_size(threshold) # 1
  THEN Raise("Argument threshold must be 1-element array")
  ELSE IF get_typenum(data) # get_typenum(threshold)
  THEN Raise("Data types of arguments must be the same")
  ELSE IF ~queues_are_compatible(q, <<get_queue(data), get_queue(threshold)>>)
  THEN Raise("Execution queue is not compatible with allocation queues")
  ELSE
    LET data_typenum == get_typenum(data)
        n_samples == get_shape(data, 0)
        run(dataT) == Kernel("compute_threshold_kernel", dataT, NoType,
                             <<n_samples, topk>>, Bufs(<<data, threshold>>),
                             depends)
    IN IF topk = 0 THEN ReturnedReady
       ELSE IF data_typenum = UAR_FLOAT_
       THEN Submitted(run(UAR_FLOAT_), <<data, threshold>>)
       ELSE IF data_typenum = UAR_DOUBLE_
       THEN Submitted(run(UAR_FLOAT_), <<data, threshold>>)  \* using dataT = float
       ELSE Raise("Unsupported elemental data type. Expect single- or double- floating-point types.")

(* dispatch_select_samples_far_from_centroid with the double-precision,    *)
(* 64-bit branch declaring "using dataT = float".                          *)
dispatch_select_samples_far_from_centroid_FloatForDouble(dataT_typenum, indT_typenum, p, all, depends) ==
  LET run(dataT, indT) ==
        Kernel("select_samples_far_from_centroid_kernel", dataT, indT, p,
               Bufs(all), depends)
  IN
  IF dataT_typenum = UAR_FLOAT_ /\ indT_typenum = UAR_INT32_
  THEN Submitted(run(UAR_FLOAT_, UAR_INT32_), all)
  ELSE IF dataT_typenum = UAR_DOUBLE_ /\ indT_typenum = UAR_INT32_
  THEN Submitted(run(UAR_DOUBLE_, UAR_INT32_), all)
  ELSE IF dataT_typenum = UAR_FLOAT_ /\ indT_typenum = UAR_INT64_
  THEN Submitted(run(UAR_FLOAT_, UAR_INT64_), all)
  ELSE IF dataT_typenum = UAR_DOUBLE_ /\ indT_typenum = UAR_INT64_
  THEN Submitted(run(UAR_FLOAT_, UAR_INT64_), all)
  ELSE Raise("Unsupported data types")

(* The dispatch of py_select_samples_far_from_centroid: p is (n_selected,   *)
(* n_samples, work_group_size).                                            *)
dispatch_select_samples_far_from_centroid(dataT_typenum, indT_typenum, p, all, depends) ==
  LET run(dataT, indT) ==
        Kernel("select_samples_far_from_centroid_kernel", dataT, indT, p,
               Bufs(all), depends)
  IN
  IF dataT_typenum = UAR_FLOAT_ /\ indT_typenum = UAR_INT32_
  THEN Submitted(run(UAR_FLOAT_, UAR_INT32_), all)
  ELSE IF dataT_typenum = UAR_DOUBLE_ /\ indT_typenum = UAR_INT32_
  THEN Submitted(run(UAR_DOUBLE_, UAR_INT32_), all)
  ELSE IF dataT_typenum = UAR_FLOAT_ /\ indT_typenum = UAR_INT64_
  THEN Submitted(run(UAR_FLOAT_, UAR_INT64_), all)
  ELSE IF dataT_typenum = UAR_DOUBLE_ /\ indT_typenum = UAR_INT64_
  THEN Submitted(run(UAR_DOUBLE_, UAR_INT64_), all)
  ELSE Raise("Unsupported data types")

(* py_select_samples_far_from_centroid without the test of n_selected == 0. *)
py_select_samples_far_from_centroid_NoZeroCheck(n_selected, distance_to_centroid, threshold, selected_samples_idx, n_selected_gt_threshold, n_selected_eq_threshold, q, depends) ==
  IF \/ get_ndim(distance_to_centroid) # 1
          \/ get_ndim(selected_samples_idx) # 1
          \/ get_size(threshold) # 1
          \/ get_size(n_selected_gt_threshold) # 1
          \/ get_size(n_selected_eq_threshold) # 1
  THEN Raise("Array dimensionalities are not consistent")
  ELSE
    LET n_samples == get_shape(distance_to_centroid, 0)
        dataT_typenum == get_typenum(distance_to_centroid)
        indT_typenum == get_typenum(selected_samples_idx)
        all == <<distance_to_centroid, threshold, selected_samples_idx,
                 n_selected_gt_threshold, n_selected_eq_threshold>>
    IN
    IF n_samples < n_selected
    THEN Raise("Argument n_select is too large")
    ELSE IF get_shape(selected_samples_idx, 0) < n_selected
    THEN Raise("Vector selected_samples_idx must have size of at least n_selected elements")
    ELSE IF ~all_c_contiguous(<<distance_to_centroid, selected_samples_idx>>)
    THEN Raise("Arrays must be C-contiguous")
    ELSE IF dataT_typenum # get_typenum(threshold)
    THEN Raise("Input arrays must have the same elemental data type")
    ELSE IF \/ indT_typenum # get_typenum(n_selected_gt_threshold)
            \/ indT_typenum # get_typenum(n_selected_eq_threshold)
    THEN Raise("Output array must have the same elemental data type")
    ELSE IF ~queues_are_compatible(q, <<get_queue(distance_to_centroid),
                 get_queue(threshold), get_queue(selected_samples_idx),
                 get_queue(n_selected_gt_threshold),
                 get_queue(n_selected_eq_threshold)>>)
    THEN Raise("Execution queue is not compatible with allocation queues")
    ELSE dispatch_select_samples_far_from_centroid(dataT_typenum, indT_typenum,
           <<n_selected, n_samples, 64>>, all, depends)

py_select_samples_far_from_centroid(n_selected, distance_to_centroid, threshold, selected_samples_idx, n_selected_gt_threshold, n_selected_eq_threshold, q, depends) ==
  IF n_selected = 0
  THEN Raise("Argument n_selected must be positive")
  ELSE IF \/ get_ndim(distance_to_centroid) # 1
          \/ get_ndim(selected_samples_idx) # 1
          \/ get_size(threshold) # 1
          \/ get_size(n_selected_gt_threshold) # 1
          \/ get_size(n_selected_eq_threshold) # 1
  THEN Raise("Array dimensionalities are not consistent")
  ELSE
    LET n_samples == get_shape(distance_to_centroid, 0)
        dataT_typenum == get_typenum(distance_to_centroid)
        indT_typenum == get_typenum(selected_samples_idx)
        all == <<distance_to_centroid, threshold, selected_samples_idx,
                 n_selected_gt_threshold, n_selected_eq_threshold>>
    IN
    IF n_samples < n_selected
    THEN Raise("Argument n_select is too large")
    ELSE IF get_shape(selected_samples_idx, 0) < n_selected
    THEN Raise("Vector selected_samples_idx must have size of at least n_selected elements")
    ELSE IF ~all_c_contiguous(<<distance_to_centroid, selected_samples_idx>>)
    THEN Raise("Arrays must be C-contiguous")
    ELSE IF dataT_typenum # get_typenum(threshold)
    THEN Raise("Input arrays must have the same elemental data type")
    ELSE IF \/ indT_typenum # get_typenum(n_selected_gt_threshold)
            \/ indT_typenum # get_typenum(n_selected_eq_threshold)
    THEN Raise("Output array must have the same elemental data type")
    ELSE IF ~queues_are_compatible(q, <<get_queue(distance_to_centroid),
                 get_queue(threshold), get_queue(selected_samples_idx),
                 get_queue(n_selected_gt_threshold),
                 get_queue(n_selected_eq_threshold)>>)
    THEN Raise("Execution queue is not compatible with allocation queues")
    ELSE dispatch_select_samples_far_from_centroid(dataT_typenum, indT_typenum,
           <<n_selected, n_samples, 64>>, all, depends)

(* dispatch_relocate_empty_clusters with the double-precision, 64-bit      *)
(* branch declaring "using dataT = float".                                 *)
dispatch_relocate_empty_clusters_FloatForDouble(dataT_typenum, indT_typenum, p, all, held, depends) ==
  LET run(dataT, indT) ==
        Kernel("relocate_empty_clusters", dataT, indT, p, Bufs(all), depends)
  IN
  IF dataT_typenum = UAR_FLOAT_ /\ indT_typenum = UAR_INT32_
  THEN Submitted(run(UAR_FLOAT_, UAR_INT32_), held)
  ELSE IF dataT_typenum = UAR_FLOAT_ /\ indT_typenum = UAR_INT64_
  THEN Submitted(run(UAR_FLOAT_, UAR_INT64_), held)
  ELSE IF dataT_typenum = UAR_DOUBLE_ /\ indT_typenum = UAR_INT32_
  THEN Submitted(run(UAR_DOUBLE_, UAR_INT32_), held)
  ELSE IF dataT_typenum = UAR_DOUBLE_ /\ indT_typenum = UAR_INT64_
  THEN Submitted(run(UAR_FLOAT_, UAR_INT64_), held)
  ELSE Raise("Unsupported data types")

(* dispatch_relocate_empty_clusters with the double-precision, 64-bit      *)
(* branch declaring "using indT = std::int32_t".                           *)
dispatch_relocate_empty_clusters_Int32ForInt64(dataT_typenum, indT_typenum, p, all, held, depends) ==
  LET run(dataT, indT) ==
        Kernel("relocate_empty_clusters", dataT, indT, p, Bufs(all), depends)
  IN
  IF dataT_typenum = UAR_FLOAT_ /\ indT_typenum = UAR_INT32_
  THEN Submitted(run(UAR_FLOAT_, UAR_INT32_), held)
  ELSE IF dataT_typenum = UAR_FLOAT_ /\ indT_typenum = UAR_INT64_
  THEN Submitted(run(UAR_FLOAT_, UAR_INT64_), held)
  ELSE IF dataT_typenum = UAR_DOUBLE_ /\ indT_typenum = UAR_INT32_
  THEN Submitted(run(UAR_DOUBLE_, UAR_INT32_), held)
  ELSE IF dataT_typenum = UAR_DOUBLE_ /\ indT_typenum = UAR_INT64_
  THEN Submitted(run(UAR_DOUBLE_, UAR_INT32_), held)
  ELSE Raise("Unsupported data types")

(* The dispatch of py_relocate_empty_clusters: p is (n_samples, n_features, *)
(* n_clusters, work_group_size, n_empty_clusters), all the arrays given to *)
(* the kernel, held the arrays given to keep_args_alive.                   *)
dispatch_relocate_empty_clusters(dataT_typenum, indT_typenum, p, all, held, depends) ==
  LET run(dataT, indT) ==
        Kernel("relocate_empty_clusters", dataT, indT, p, Bufs(all), depends)
  IN
  IF dataT_typenum = UAR_FLOAT_ /\ indT_typenum = UAR_INT32_
  THEN Submitted(run(UAR_FLOAT_, UAR_INT32_), held)
  ELSE IF dataT_typenum = UAR_FLOAT_ /\ indT_typenum = UAR_INT64_
  THEN Submitted(run(UAR_FLOAT_, UAR_INT64_), held)
  ELSE IF dataT_typenum = UAR_DOUBLE_ /\ indT_typenum = UAR_INT32_
  THEN Submitted(run(UAR_DOUBLE_, UAR_INT32_), held)
  ELSE IF dataT_typenum = UAR_DOUBLE_ /\ indT_typenum = UAR_INT64_
  THEN Submitted(run(UAR_DOUBLE_, UAR_INT64_), held)
  ELSE Raise("Unsupported data types")

py_relocate_empty_clusters(n_empty_clusters, X_t, sample_weights, assignment_id, empty_clusters_list, sq_dist_to_nearest_centroid, centroid_t, cluster_sizes, per_sample_inertia, q, depends) ==
  LET all == <<X_t, sample_weights, assignment_id, empty_clusters_list,
               sq_dist_to_nearest_centroid, centroid_t, cluster_sizes,
               per_sample_inertia>>
  IN
  IF \/ 2 # get_ndim(X_t) \/ 1 # get_ndim(sample_weights)
     \/ 1 # get_ndim(assignment_id)
     \/ 1 # get_ndim(empty_clusters_list)
     \/ 1 # get_ndim(sq_dist_to_nearest_centroid)
     \/ 2 # get_ndim(centroid_t)
     \/ 1 # get_ndim(cluster_sizes)
     \/ 1 # get_ndim(per_sample_inertia)
  THEN Raise("Arguments have inconsistent array dimensionality.")
  ELSE IF ~all_c_contiguous(all)
  THEN Raise("Inputs must be C-contiguous")
  ELSE
    LET n_samples == get_shape(X_t, 1)
        n_features == get_shape(X_t, 0)
        n_clusters == get_shape(empty_clusters_list, 0)
        dataT_typenum == get_typenum(X_t)
        indT_typenum == get_typenum(assignment_id)
        \* keep_args_alive is given the first seven arrays only
        held == <<X_t, sample_weights, assignment_id, empty_clusters_list,
                  sq_dist_to_nearest_centroid, centroid_t, cluster_sizes>>
    IN
    IF \/ n_samples # get_shape(sample_weights, 0)
       \/ n_samples # get_shape(assignment_id, 0)
       \/ n_samples # get_shape(sq_dist_to_nearest_centroid, 0)
       \/ n_clusters # get_shape(centroid_t, 1)
       \/ n_features # get_shape(centroid_t, 0)
       \/ n_clusters # get_shape(cluster_sizes, 0)
       \/ n_samples # get_shape(per_sample_inertia, 0)
    THEN Raise("Input dimensions are inconsistent")
    ELSE IF n_empty_clusters = 0
    THEN Raise("n_empty_clusters must be non-zero.")
    ELSE IF ~queues_are_compatible(q, <<get_queue(all[1]), get_queue(all[2]),
                 get_queue(all[3]), get_queue(all[4]), get_queue(all[5]),
                 get_queue(all[6]), get_queue(all[7]), get_queue(all[8])>>)
    THEN Raise("Execution queue is not compatible with allocation queues.")
    ELSE IF \/ dataT_typenum # get_typenum(sample_weights)
            \/ indT_typenum # get_typenum(empty_clusters_list)
            \/ dataT_typenum # get_typenum(sq_dist_to_nearest_centroid)
            \/ dataT_typenum # get_typenum(centroid_t)
            \/ dataT_typenum # get_typenum(cluster_sizes)
            \/ dataT_typenum # get_typenum(per_sample_inertia)
    THEN Raise("Inconsistent array elemental data types")
    ELSE dispatch_relocate_empty_clusters(dataT_typenum, indT_typenum,
           <<n_samples, n_features, n_clusters, 64, n_empty_clusters>>,
           all, held, depends)

(* py_compute_centroid_shifts_squared_kernel with the double-precision     *)
(* branch declaring "using dataT = float".                                 *)
py_compute_centroid_shifts_squared_kernel_FloatForDouble(old_centroid_t, new_centroid_t, centroid_shifts, q, depends) ==
  IF \/ 2 # get_ndim(new_centroid_t) \/ 2 # get_ndim(old_centroid_t)
     \/ 1 # get_ndim(centroid_shifts)
  THEN Raise("Input dimensionalities are not consistent.")
  ELSE
    LET n_features == get_shape(old_centroid_t, 0)
        n_clusters == get_shape(old_centroid_t, 1)
        typenum == get_typenum(old_centroid_t)
        all == <<old_centroid_t, new_centroid_t, centroid_shifts>>
        run(dataT) ==
          Kernel("compute_centroid_shifts_squared_kernel", dataT, NoType,
                 <<n_features, n_clusters, 128>>, Bufs(all), depends)
    IN
    IF \/ n_features # get_shape(new_centroid_t, 0)
       \/ n_clusters # get_shape(new_centroid_t, 1)
       \/ n_clusters # get_shape(centroid_shifts, 0)
    THEN Raise("Array dimensions are not consistent.")
    ELSE IF ~all_c_contiguous(<<new_centroid_t, old_centroid_t, centroid_shifts>>)
    THEN Raise("Arguments must be C-contiguous arrays")
    ELSE IF ~queues_are_compatible(q, <<get_queue(new_centroid_t),
                 get_queue(old_centroid_t), get_queue(centroid_shifts)>>)
    THEN Raise("Execution queue is not compatible with allocation queues")
    ELSE IF \/ typenum # get_typenum(new_centroid_t)
            \/ typenum # get_typenum(centroid_shifts)
    THEN Raise("All array arguments must have the same elemental data types")
    ELSE IF typenum = UAR_FLOAT_ THEN Submitted(run(UAR_FLOAT_), all)
    ELSE IF typenum = UAR_DOUBLE_ THEN Submitted(run(UAR_FLOAT_), all)
    ELSE Raise("Unsupported elemental data type.")

py_compute_centroid_shifts_squared_kernel(old_centroid_t, new_centroid_t, centroid_shifts, q, depends) ==
  IF \/ 2 # get_ndim(new_centroid_t) \/ 2 # get_ndim(old_centroid_t)
     \/ 1 # get_ndim(centroid_shifts)
  THEN Raise("Input dimensionalities are not consistent.")
  ELSE
    LET n_features == get_shape(old_centroid_t, 0)
        n_clusters == get_shape(old_centroid_t, 1)
        typenum == get_typenum(old_centroid_t)
        all == <<old_centroid_t, new_centroid_t, centroid_shifts>>
        run(dataT) ==
          Kernel("compute_centroid_shifts_squared_kernel", dataT, NoType,
                 <<n_features, n_clusters, 128>>, Bufs(all), depends)
    IN
    IF \/ n_features # get_shape(new_centroid_t, 0)
       \/ n_clusters # get_shape(new_centroid_t, 1)
       \/ n_clusters # get_shape(centroid_shifts, 0)
    THEN Raise("Array dimensions are not consistent.")
    ELSE IF ~all_c_contiguous(<<new_centroid_t, old_centroid_t, centroid_shifts>>)
    THEN Raise("Arguments must be C-contiguous arrays")
    ELSE IF ~queues_are_compatible(q, <<get_queue(new_centroid_t),
                 get_queue(old_centroid_t), get_queue(centroid_shifts)>>)
    THEN Raise("Execution queue is not compatible with allocation queues")
    ELSE IF \/ typenum # get_typenum(new_centroid_t)
            \/ typenum # get_typenum(centroid_shifts)
    THEN Raise("All array arguments must have the same elemental data types")
    ELSE IF typenum = UAR_FLOAT_ THEN Submitted(run(UAR_FLOAT_), all)
    ELSE IF typenum = UAR_DOUBLE_ THEN Submitted(run(UAR_DOUBLE_), all)
    ELSE Raise("Unsupported elemental data type.")

(* py_compute_distances with the double-precision branch declaring         *)
(* "using dataT = float".                                                  *)
py_compute_distances_FloatForDouble(X_t, centroid_t, euclidean_distances_t, work_group_size, centroids_window_height, q, depends) ==
  IF \/ 2 # get_ndim(X_t) \/ 2 # get_ndim(centroid_t)
     \/ 2 # get_ndim(euclidean_distances_t)
  THEN Raise("Input arrays must have dimensionality 2.")
  ELSE IF ~all_c_contiguous(<<X_t, centroid_t, euclidean_distances_t>>)
  THEN Raise("Input arrays must be C-contiguous.")
  ELSE
    LET n_features == get_shape(X_t, 0)
        n_samples == get_shape(X_t, 1)
        n_clusters == get_shape(euclidean_distances_t, 0)
        typenum == get_typenum(X_t)
        all == <<X_t, centroid_t, euclidean_distances_t>>
        run(dataT) ==
          Kernel("compute_distances", dataT, NoType,
                 <<n_samples, n_features, n_clusters, centroids_window_height,
                   work_group_size>>, Bufs(all), depends)
    IN
    IF \/ n_features # get_shape(centroid_t, 0)
       \/ n_clusters # get_shape(centroid_t, 1)
       \/ n_samples # get_shape(euclidean_distances_t, 1)
    THEN Raise("Input array dimensions are not consistant")
    ELSE IF ~queues_are_compatible(q, <<get_queue(X_t), get_queue(centroid_t),
                 get_queue(euclidean_distances_t)>>)
    THEN Raise("Execution queue is not compatible with allocation queues")
    ELSE IF \/ typenum # get_typenum(centroid_t)
            \/ typenum # get_typenum(euclidean_distances_t)
    THEN Raise("Arrays must have the same elemental data types")
    ELSE IF typenum = UAR_FLOAT_ THEN Submitted(run(UAR_FLOAT_), all)
    ELSE IF typenum = UAR_DOUBLE_ THEN Submitted(run(UAR_FLOAT_), all)
    ELSE Raise("Unsupported elemental data type")

py_compute_distances(X_t, centroid_t, euclidean_distances_t, work_group_size, centroids_window_height, q, depends) ==
  IF \/ 2 # get_ndim(X_t) \/ 2 # get_ndim(centroid_t)
     \/ 2 # get_ndim(euclidean_distances_t)
  THEN Raise("Input arrays must have dimensionality 2.")
  ELSE IF ~all_c_contiguous(<<X_t, centroid_t, euclidean_distances_t>>)
  THEN Raise("Input arrays must be C-contiguous.")
  ELSE
    LET n_features == get_shape(X_t, 0)
        n_samples == get_shape(X_t, 1)
        n_clusters == get_shape(euclidean_distances_t, 0)
        typenum == get_typenum(X_t)
        all == <<X_t, centroid_t, euclidean_distances_t>>
        run(dataT) ==
          Kernel("compute_distances", dataT, NoType,
                 <<n_samples, n_features, n_clusters, centroids_window_height,
                   work_group_size>>, Bufs(all), depends)
    IN
    IF \/ n_features # get_shape(centroid_t, 0)
       \/ n_clusters # get_shape(centroid_t, 1)
       \/ n_samples # get_shape(euclidean_distances_t, 1)
    THEN Raise("Input array dimensions are not consistant")
    ELSE IF ~queues_are_compatible(q, <<get_queue(X_t), get_queue(centroid_t),
                 get_queue(euclidean_distances_t)>>)
    THEN Raise("Execution queue is not compatible with allocation queues")
    ELSE IF \/ typenum # get_typenum(centroid_t)
            \/ typenum # get_typenum(euclidean_distances_t)
    THEN Raise("Arrays must have the same elemental data types")
    ELSE IF typenum = UAR_FLOAT_ THEN Submitted(run(UAR_FLOAT_), all)
    ELSE IF typenum = UAR_DOUBLE_ THEN Submitted(run(UAR_DOUBLE_), all)
    ELSE Raise("Unsupported elemental data type")

(* dispatch_assignment with the double-precision, 64-bit branch declaring  *)
(* "using dataT = float".                                                  *)
dispatch_assignment_FloatForDouble(dataT_typenum, indT_typenum, p, all, depends) ==
  LET run(dataT, indT) ==
        Kernel("assignment", dataT, indT, p, Bufs(all), depends)
  IN
  IF dataT_typenum = UAR_FLOAT_ /\ indT_typenum = UAR_INT32_
  THEN Submitted(run(UAR_FLOAT_, UAR_INT32_), all)
  ELSE IF dataT_typenum = UAR_DOUBLE_ /\ indT_typenum = UAR_INT32_
  THEN Submitted(run(UAR_DOUBLE_, UAR_INT32_), all)
  ELSE IF dataT_typenum = UAR_FLOAT_ /\ indT_typenum = UAR_INT64_
  THEN Submitted(run(UAR_FLOAT_, UAR_INT64_), all)
  ELSE IF dataT_typenum = UAR_DOUBLE_ /\ indT_typenum = UAR_INT64_
  THEN Submitted(run(UAR_FLOAT_, UAR_INT64_), all)
  ELSE Raise("Unsupported array elemental data type")

(* The dispatch of py_assignment: p is (n_samples, n_features, n_clusters,  *)
(* centroids_window_height, work_group_size).                              *)
dispatch_assignment(dataT_typenum, indT_typenum, p, all, depends) ==
  LET run(dataT, indT) ==
        Kernel("assignment", dataT, indT, p, Bufs(all), depends)
  IN
  IF dataT_typenum = UAR_FLOAT_ /\ indT_typenum = UAR_INT32_
  THEN Submitted(run(UAR_FLOAT_, UAR_INT32_), all)
  ELSE IF dataT_typenum = UAR_DOUBLE_ /\ indT_typenum = UAR_INT32_
  THEN Submitted(run(UAR_DOUBLE_, UAR_INT32_), all)
  ELSE IF dataT_typenum = UAR_FLOAT_ /\ indT_typenum = UAR_INT64_
  THEN Submitted(run(UAR_FLOAT_, UAR_INT64_), all)
  ELSE IF dataT_typenum = UAR_DOUBLE_ /\ indT_typenum = UAR_INT64_
  THEN Submitted(run(UAR_DOUBLE_, UAR_INT64_), all)
  ELSE Raise("Unsupported array elemental data type")

py_assignment(X_t, centroid_t, centroids_half_l2_norm, assignment_id, centroids_window_height, work_group_size, q, depends) ==
  LET all == <<X_t, centroid_t, centroids_half_l2_norm, assignment_id>>
  IN
  IF \/ 2 # get_ndim(X_t) \/ 2 # get_ndim(centroid_t)
     \/ 1 # get_ndim(centroids_half_l2_norm) \/ 1 # get_ndim(assignment_id)
  THEN Raise("Inputs have unexpected dimensionality.")
  ELSE IF ~all_c_contiguous(all)
  THEN Raise("Inputs must be C-contiguous arrays.")
  ELSE
    LET n_features == get_shape(X_t, 0)
        n_samples == get_shape(X_t, 1)
        n_clusters == get_shape(centroids_half_l2_norm, 0)
        dataT_typenum == get_typenum(X_t)
        indT_typenum == get_typenum(assignment_id)
    IN
    IF \/ n_features # get_shape(centroid_t, 0)
       \/ n_clusters # get_shape(centroid_t, 1)
       \/ n_samples # get_shape(assignment_id, 0)
    THEN Raise("Inputs have inconsistent dimensions.")
    ELSE IF ~queues_are_compatible(q, <<get_queue(X_t), get_queue(centroid_t),
                 get_queue(centroids_half_l2_norm), get_queue(assignment_id)>>)
    THEN Raise("Execution queue is incompatible with allocation queues.")
    ELSE IF \/ dataT_typenum # get_typenum(centroid_t)
            \/ dataT_typenum # get_typenum(centroids_half_l2_norm)
    THEN Raise("Arrays have inconsistent elemental data types")
    ELSE dispatch_assignment(dataT_typenum, indT_typenum,
           <<n_samples, n_features, n_clusters, centroids_window_height,
             work_group_size>>, all, depends)

----------------------------------------------------------------------------
(* The device queue.  A submitted kernel is a task whose event is its      *)
(* position in tasks; keep_args_alive submits a host task that depends on  *)
(* the computation event and holds the arrays it was given.                *)

HostTask == Kernel("host_task", NoType, NoType, <<>>, <<>>, {})

KernelTask(k) == [kind |-> "kernel", k |-> k, holds |-> <<>>, deps |-> k.depends]

keep_args_alive(held, comp_ev) ==
  [kind |-> "host_task", k |-> HostTask, holds |-> held, deps |-> {comp_ev}]

NoReturn == [n |-> 0, op |-> "none", raised |-> FALSE, msg |-> "",
             ht |-> NoEvent, comp |-> NoEvent]

(* A host call of entry point op with outcome o: the tasks of o join the   *)
(* queue and the pair (ht_ev, comp_ev) is returned, or the exception       *)
(* propagates.  args is what the properties need of the call's arguments.  *)
Submit(op, o, args) ==
  /\ LET base == Len(tasks)
         nk == Len(o.kernels)
         comp_ev == base + nk
         ktasks == [i \in 1..nk |-> KernelTask(o.kernels[i])]
         htasks == [i \in 1..Len(o.keep) |-> keep_args_alive(o.keep[i], comp_ev)]
     IN /\ tasks' = tasks \o ktasks \o htasks
        /\ ret' = [n |-> ret.n + 1, op |-> op, raised |-> o.raised, msg |-> o.msg,
                   ht |-> IF o.raised THEN NoEvent
                          ELSE IF o.ready THEN ReadyEvent
                          ELSE base + nk + Len(o.keep),
                   comp |-> IF o.raised THEN NoEvent
                            ELSE IF o.ready THEN ReadyEvent
                            ELSE comp_ev]
        /\ pre' = [mem |-> mem, ntasks |-> base, args |-> args]
  /\ UNCHANGED <<mem, done, wi, arrs>>

(* The one call of a behaviour that makes a single call. *)
HostCall(op, o, args) ==
  /\ ret.n = 0
  /\ Submit(op, o, args)

(* The caller's own event completes. *)
CompletePred ==
  /\ PredEvent \notin done
  /\ done' = done \cup {PredEvent}
  /\ UNCHANGED <<mem, tasks, ret, pre, wi, arrs>>

Ready(i) == i \in 1..Len(tasks) /\ i \notin done /\ tasks[i].deps \subseteq done

(* The host task of keep_args_alive runs once the computation is complete  *)
(* and drops the references it holds.                                      *)
RunHostTask ==
  \E i \in 1..Len(tasks) :
    /\ Ready(i)
    /\ tasks[i].kind = "host_task"
    /\ done' = done \cup {i}
    /\ UNCHANGED <<mem, tasks, ret, pre, wi, arrs>>

----------------------------------------------------------------------------
(* Calls with arbitrary arguments.  The arrays of a call are the arrays of *)
(* a well-formed call (shapes from n_features, n_samples, n_clusters,      *)
(* n_copies; one element type dT, one index type iT) with at most one      *)
(* array damaged in rank, shape, layout, type or allocation queue.  The    *)
(* arrays' contents are a version number that a kernel bumps when it       *)
(* writes the array.                                                       *)

SupportedData == {UAR_FLOAT_, UAR_DOUBLE_}
SupportedIndex == {UAR_INT32_, UAR_INT64_}

DataChoices == {UAR_FLOAT_, UAR_DOUBLE_, UAR_HALF_}
IndexChoices == {UAR_INT32_, UAR_INT64_, UAR_HALF_}
DependsChoices == {{}, {PredEvent}}

ArgsOf(op, dT, iT) ==
  LET F == MaxFeatures
      N == MaxSamples
      K == MaxClusters
      C == MaxCopies
  IN CASE op = "broadcast_divide" ->
            <<Arr("X", <<F, K>>, dT), Arr("y", <<K>>, dT)>>
       [] op = "half_l2_norm_squared" ->
            <<Arr("X", <<F, K>>, dT), Arr("y", <<K>>, dT)>>
       [] op = "reduce_centroids_data" ->
            <<Arr("cluster_sizes_private_copies", <<C, K>>, dT),
              Arr("centroids_t_private_copies", <<C, F, K>>, dT),
              Arr("out_cluster_sizes", <<K>>, dT),
              Arr("out_centroids_t", <<F, K>>, dT),
              Arr("out_empty_clusters_list", <<K>>, iT),
              Arr("out_n_empty_clusters", <<1>>, iT)>>
       [] op = "compute_threshold" ->
            <<Arr("data", <<N>>, dT), Arr("threshold", <<1>>, dT)>>
       [] op = "select_samples_far_from_centroid" ->
            <<Arr("distance_to_centroid", <<N>>, dT),
              Arr("threshold", <<1>>, dT),
              Arr("selected_samples_idx", <<N>>, iT),
              Arr("n_selected_gt_threshold", <<1>>, iT),
              Arr("n_selected_eq_threshold", <<1>>, iT)>>
       [] op = "relocate_empty_clusters" ->
            <<Arr("X_t", <<F, N>>, dT), Arr("sample_weights", <<N>>, dT),
              Arr("assignment_id", <<N>>, iT),
              Arr("empty_clusters_list", <<K>>, iT),
              Arr("sq_dist_to_nearest_centroid", <<N>>, dT),
              Arr("centroid_t", <<F, K>>, dT), Arr("cluster_sizes", <<K>>, dT),
              Arr("per_sample_inertia", <<N>>, dT)>>
       [] op = "compute_centroid_shifts_squared" ->
            <<Arr("old_centroid_t", <<F, K>>, dT),
              Arr("new_centroid_t", <<F, K>>, dT),
              Arr("centroid_shifts", <<K>>, dT)>>
       [] op = "compute_centroid_to_sample_distances" ->
            <<Arr("X_t", <<F, N>>, dT), Arr("centroid_t", <<F, K>>, dT),
              Arr("euclidean_distances_t", <<K, N>>, dT)>>
       [] op = "assignment" ->
            <<Arr("X_t", <<F, N>>, dT), Arr("centroid_t", <<F, K>>, dT),
              Arr("centroids_half_l2_norm", <<K>>, dT),
              Arr("assignment_id", <<N>>, iT)>>

(* The positions of the index-typed (indT) arrays of each entry point. *)
IndexArgs(op) ==
  CASE op = "reduce_centroids_data" -> {5, 6}
    [] op = "select_samples_far_from_centroid" -> {3, 4, 5}
    [] op = "relocate_empty_clusters" -> {3, 4}
    [] op = "assignment" -> {4}
    [] OTHER -> {}

(* The positions of the arrays each kernel writes. *)
Written(name) ==
  CASE name = "broadcast_division_kernel" -> {1}
    [] name = "half_l2_norm_kernel" -> {2}
    [] name = "reduce_centroid_data_kernel" -> {3, 4, 5, 6}
    [] name = "compute_threshold_kernel" -> {2}
    [] name = "select_samples_far_from_centroid_kernel" -> {3, 4, 5}
    [] name = "relocate_empty_clusters" -> {6, 7, 8}
    [] name = "compute_centroid_shifts_squared_kernel" -> {3}
    [] name = "compute_distances" -> {3}
    [] name = "assignment" -> {4}
    [] OTHER -> {}

NoDefect == [kind |-> "none", arg |-> 0, typenum |-> NoType]

Defects(nargs) ==
  {NoDefect}
  \cup [kind : {"rank", "shape", "layout", "queue"}, arg : 1..nargs,
        typenum : {NoType}]
  \cup [kind : {"type"}, arg : 1..nargs, typenum : TypeNums]

Damage(x, d) ==
  CASE d.kind = "rank" -> [x EXCEPT !.shape = <<1>> \o @]
    [] d.kind = "shape" -> [x EXCEPT !.shape[Len(x.shape)] = @ + 1]
    [] d.kind = "layout" -> [x EXCEPT !.contig = FALSE]
    [] d.kind = "queue" -> [x EXCEPT !.queue = OtherQueue]
    [] d.kind = "type" -> [x EXCEPT !.typenum = d.typenum]
    [] OTHER -> x

Damaged(args, d) ==
  [i \in 1..Len(args) |-> IF i = d.arg THEN Damage(args[i], d) ELSE args[i]]

(* Some array of the call has an element type other than single or double  *)
(* precision, or an index type other than a 32- or 64-bit integer.         *)
HasUnsupportedType(op, args) ==
  \E i \in 1..Len(args) :
    IF i \in IndexArgs(op) THEN args[i].typenum \notin SupportedIndex
    ELSE args[i].typenum \notin SupportedData

CallArgs(op, a, scalar, depends) ==
  [op |-> op, scalar |-> scalar, badtype |-> HasUnsupportedType(op, a), arrays |-> a,
   depends |-> depends]

NoArgs == [op |-> "none", scalar |-> 0, badtype |-> FALSE, arrays |-> <<>>, depends |-> {}]

CallBufs ==
  {"X", "y", "cluster_sizes_private_copies", "centroids_t_private_copies",
   "out_cluster_sizes", "out_centroids_t", "out_empty_clusters_list",
   "out_n_empty_clusters", "data", "threshold", "distance_to_centroid",
   "selected_samples_idx", "n_selected_gt_threshold", "n_selected_eq_threshold",
   "X_t", "sample_weights", "assignment_id", "empty_clusters_list",
   "sq_dist_to_nearest_centroid", "centroid_t", "cluster_sizes",
   "per_sample_inertia", "old_centroid_t", "new_centroid_t", "centroid_shifts",
   "euclidean_distances_t", "centroids_half_l2_norm"}

Call_broadcast_divide ==
  /\ ret.n = 0
  /\ \E dT \in DataChoices, d \in Defects(2), deps \in DependsChoices :
    LET a == Damaged(ArgsOf("broadcast_divide", dT, dT), d)
    IN HostCall("broadcast_divide",
                py_broadcast_divide(a[1], a[2], ExecQueue, deps),
                CallArgs("broadcast_divide", a, 0, deps))

Call_half_l2_norm_squared ==
  /\ ret.n = 0
  /\ \E dT \in DataChoices, d \in Defects(2), deps \in DependsChoices :
    LET a == Damaged(ArgsOf("half_l2_norm_squared", dT, dT), d)
    IN HostCall("half_l2_norm_squared",
                py_half_l2_norm_squared(a[1], a[2], ExecQueue, deps),
                CallArgs("half_l2_norm_squared", a, 0, deps))

Call_reduce_centroids_data ==
  /\ ret.n = 0
  /\ \E dT \in DataChoices, iT \in IndexChoices, d \in Defects(6),
     deps \in DependsChoices :
    LET a == Damaged(ArgsOf("reduce_centroids_data", dT, iT), d)
    IN HostCall("reduce_centroids_data",
                py_reduce_centroids_data(a[1], a[2], a[3], a[4], a[5], a[6],
                                         ExecQueue, deps),
                CallArgs("reduce_centroids_data", a, 0, deps))

Call_compute_threshold ==
  /\ ret.n = 0
  /\ \E dT \in DataChoices, d \in Defects(2), deps \in DependsChoices,
     topk \in 0..MaxSamples :
    LET a == Damaged(ArgsOf("compute_threshold", dT, dT), d)
    IN HostCall("compute_threshold",
                py_compute_threshold(a[1], topk, a[2], ExecQueue, deps),
                CallArgs("compute_threshold", a, topk, deps))

Call_select_samples_far_from_centroid ==
  /\ ret.n = 0
  /\ \E dT \in DataChoices, iT \in IndexChoices, d \in Defects(5),
     deps \in DependsChoices, n_selected \in 0..(MaxSamples + 1) :
    LET a == Damaged(ArgsOf("select_samples_far_from_centroid", dT, iT), d)
    IN HostCall("select_samples_far_from_centroid",
                py_select_samples_far_from_centroid(n_selected, a[1], a[2], a[3],
                                                    a[4], a[5], ExecQueue, deps),
                CallArgs("select_samples_far_from_centroid", a, n_selected, deps))

Call_relocate_empty_clusters ==
  /\ ret.n = 0
  /\ \E dT \in DataChoices, iT \in IndexChoices, d \in Defects(8),
     deps \in DependsChoices, n_empty_clusters \in 0..(MaxSamples + 1) :
    LET a == Damaged(ArgsOf("relocate_empty_clusters", dT, iT), d)
    IN HostCall("relocate_empty_clusters",
                py_relocate_empty_clusters(n_empty_clusters, a[1], a[2], a[3],
                                           a[4], a[5], a[6], a[7], a[8],
                                           ExecQueue, deps),
                CallArgs("relocate_empty_clusters", a, n_empty_clusters, deps))

Call_compute_centroid_shifts_squared ==
  /\ ret.n = 0
  /\ \E dT \in DataChoices, d \in Defects(3), deps \in DependsChoices :
    LET a == Damaged(ArgsOf("compute_centroid_shifts_squared", dT, dT), d)
    IN HostCall("compute_centroid_shifts_squared",
                py_compute_centroid_shifts_squared_kernel(a[1], a[2], a[3],
                                                          ExecQueue, deps),
                CallArgs("compute_centroid_shifts_squared", a, 0, deps))

Call_compute_distances ==
  /\ ret.n = 0
  /\ \E dT \in DataChoices, d \in Defects(3), deps \in DependsChoices,
     work_group_size \in 1..MaxSamples, centroids_window_height \in 1..MaxClusters :
    LET a == Damaged(ArgsOf("compute_centroid_to_sample_distances", dT, dT), d)
    IN HostCall("compute_centroid_to_sample_distances",
                py_compute_distances(a[1], a[2], a[3], work_group_size,
                                     centroids_window_height, ExecQueue, deps),
                CallArgs("compute_centroid_to_sample_distances", a, 0, deps))

Call_assignment ==
  /\ ret.n = 0
  /\ \E dT \in DataChoices, iT \in IndexChoices, d \in Defects(4),
     deps \in DependsChoices,
     centroids_window_height \in 1..MaxClusters, work_group_size \in 1..MaxSamples :
    LET a == Damaged(ArgsOf("assignment", dT, iT), d)
    IN HostCall("assignment",
                py_assignment(a[1], a[2], a[3], a[4], centroids_window_height,
                              work_group_size, ExecQueue, deps),
                CallArgs("assignment", a, 0, deps))

(* A submitted kernel runs once its dependencies are complete and writes   *)
(* its output arrays.                                                      *)
RunKernel ==
  \E i \in 1..Len(tasks) :
    /\ Ready(i)
    /\ tasks[i].kind = "kernel"
    /\ LET k == tasks[i].k
           out == {k.bufs[j] : j \in Written(k.name) \cap DOMAIN k.bufs}
       IN mem' = [b \in DOMAIN mem |->
                    IF b \in out THEN <<mem[b][1] + 1>> ELSE mem[b]]
    /\ done' = done \cup {i}
    /\ UNCHANGED <<tasks, ret, pre, wi, arrs>>

InitCalls ==
  /\ mem = [b \in CallBufs |-> <<0>>]
  /\ tasks = <<>>
  /\ done = {ReadyEvent}
  /\ ret = NoReturn
  /\ pre = [mem |-> mem, ntasks |-> 0, args |-> NoArgs]
  /\ wi = <<>>
  /\ arrs = <<>>

NextCalls ==
  \/ Call_broadcast_divide
  \/ Call_half_l2_norm_squared
  \/ Call_reduce_centroids_data
  \/ Call_compute_threshold
  \/ Call_select_samples_far_from_centroid
  \/ Call_relocate_empty_clusters
  \/ Call_compute_centroid_shifts_squared
  \/ Call_compute_distances
  \/ Call_assignment
  \/ CompletePred
  \/ RunKernel
  \/ RunHostTask

SpecCalls == InitCalls /\ [][NextCalls]_vars

----------------------------------------------------------------------------
(* Properties of the calls. *)

IsCall == ret'.n # ret.n

(* C1: a call that any validation check rejects has submitted nothing: no  *)
(* kernel and no keep-alive task joined the queue, no event was returned   *)
(* and no buffer was modified, whatever the entry point and the check.     *)
C1_RejectedBeforeSubmission ==
  [][(IsCall /\ ret'.raised) =>
       /\ tasks' = tasks
       /\ mem' = mem
       /\ ret'.ht = NoEvent /\ ret'.comp = NoEvent]_vars

(* A call rejected by the last check of an entry point, the dispatch on    *)
(* the typenums, with nothing in the queue.                                *)
C1_Witness ==
  /\ ret.raised
  /\ ret.op = "relocate_empty_clusters"
  /\ ret.msg = "Unsupported data types"
  /\ tasks = <<>>

(* C9: every call with an unsupported element type or index type raises,   *)
(* for every value of the scalar parameters.                               *)
C9_UnsupportedTypeRejected ==
  [][(IsCall /\ pre'.args.badtype) => ret'.raised]_vars

(* The calls of C9 other than compute_threshold with topk = 0 do raise. *)
UnsupportedTypeRejectedUnlessTopkZero ==
  [][(IsCall /\ pre'.args.badtype
        /\ ~(pre'.args.op = "compute_threshold" /\ pre'.args.scalar = 0))
      => ret'.raised]_vars

----------------------------------------------------------------------------
(* Typed access to an allocation.  An allocation is a sequence of 4-byte   *)
(* words, each word one of WordBase values.  A single-precision element is *)
(* one word; a double-precision element is two words, low word first, and  *)
(* orders by its high word and then its low word, as non-negative IEEE     *)
(* numbers order by their bit patterns.  get_data<T>() only casts the      *)
(* pointer: Load and Store view the words as elements of the type T the    *)
(* kernel was instantiated with.                                           *)

ElemWords(T) == IF T = UAR_DOUBLE_ \/ T = UAR_INT64_ THEN 2 ELSE 1

ValuesOf(T) == IF ElemWords(T) = 2 THEN 0..(WordBase * WordBase - 1)
               ELSE 0..(WordBase - 1)

(* The values the inputs are drawn from: both words of a two-word element  *)
(* take the values 0 and 1.                                                *)
InputValues(T) == IF ElemWords(T) = 2 THEN {0, 1, WordBase, WordBase + 1}
                  ELSE {0, 1}

Load(T, words, i) ==
  IF ElemWords(T) = 2 THEN words[2 * i + 1] + WordBase * words[2 * i + 2]
  ELSE words[i + 1]

Store(T, words, i, v) ==
  IF ElemWords(T) = 2
  THEN [words EXCEPT ![2 * i + 1] = v % WordBase, ![2 * i + 2] = v \div WordBase]
  ELSE [words EXCEPT ![i + 1] = v]

View(T, words, n) == [i \in 1..n |-> Load(T, words, i - 1)]

(* The words of an array of type T with the elements vals. *)
RECURSIVE Encode(_, _)
Encode(T, vals) ==
  IF vals = <<>> THEN <<>>
  ELSE (IF ElemWords(T) = 2
        THEN <<Head(vals) % WordBase, Head(vals) \div WordBase>>
        ELSE <<Head(vals)>>) \o Encode(T, Tail(vals))

(* The k-th largest of vals (1 <= k <= Len(vals)): fewer than k entries    *)
(* are greater and at least k are greater or equal.                        *)
KthLargest(vals, k) ==
  CHOOSE v \in {vals[i] : i \in 1..Len(vals)} :
    /\ Cardinality({i \in 1..Len(vals) : vals[i] > v}) < k
    /\ Cardinality({i \in 1..Len(vals) : vals[i] >= v}) >= k

(* compute_threshold_kernel<T>(q, n_samples, data, topk, threshold,        *)
(* depends): the topk-th largest of the n_samples elements of type T at    *)
(* data is written to threshold[0].  Returns the words of threshold.       *)
compute_threshold_kernel(T, n_samples, data, topk, threshold) ==
  Store(T, threshold, 0, KthLargest(View(T, data, n_samples), topk))

RECURSIVE SeqSum(_)
SeqSum(s) == IF s = <<>> THEN 0 ELSE Head(s) + SeqSum(Tail(s))

RECURSIVE StoreAll(_, _, _, _)
(* Store vals[1..] at the elements from, from + 1, ... *)
StoreAll(T, words, from, vals) ==
  IF vals = <<>> THEN words
  ELSE StoreAll(T, Store(T, words, from, Head(vals)), from + 1, Tail(vals))

(* half_l2_norm_kernel<T>(q, n_rows, n_cols, work_group_size, X, y,        *)
(* depends): for every column of the n_rows x n_cols matrix at X, half the *)
(* sum of the squares of its entries is written to y.  Returns the words   *)
(* of y.                                                                   *)
half_l2_norm_kernel(T, n_rows, n_cols, X, y) ==
  StoreAll(T, y, 0,
           [j \in 1..n_cols |->
              SeqSum([f \in 1..n_rows |->
                        Load(T, X, (f - 1) * n_cols + j - 1)
                          * Load(T, X, (f - 1) * n_cols + j - 1)]) \div 2])

(* compute_centroid_shifts_squared_kernel<T>(q, n_features, n_clusters,    *)
(* work_group_size, old_centroid_t, new_centroid_t, centroid_shifts,       *)
(* depends): for every cluster, the sum over the features of the squared   *)
(* difference of the two matrices' entries is written to centroid_shifts.  *)
(* Returns the words of centroid_shifts.                                   *)
compute_centroid_shifts_squared_kernel(T, n_features, n_clusters, old, new, shifts) ==
  StoreAll(T, shifts, 0,
           [k \in 1..n_clusters |->
              SeqSum([f \in 1..n_features |->
                        (Load(T, old, (f - 1) * n_clusters + k - 1)
                           - Load(T, new, (f - 1) * n_clusters + k - 1))
                        * (Load(T, old, (f - 1) * n_clusters + k - 1)
                             - Load(T, new, (f - 1) * n_clusters + k - 1))])])

(* broadcast_division_kernel<T>(q, n_rows, n_cols, work_group_size, X, y,  *)
(* depends): every entry of column j of the matrix is divided by y[j].     *)
(* The quotient by zero is not a finite number.  Returns the words of X.   *)
NonFinite == -1

Quotient(a, b) == IF b = 0 \/ a = NonFinite \/ b = NonFinite THEN NonFinite ELSE a \div b

broadcast_division_kernel(T, n_rows, n_cols, X, y) ==
  StoreAll(T, X, 0,
           [j \in 1..(n_rows * n_cols) |->
              Quotient(Load(T, X, j - 1), Load(T, y, (j - 1) % n_cols))])

(* What a kernel that runs as one step leaves in memory. *)
KernelEffect(k, m) ==
  CASE k.name = "compute_threshold_kernel" ->
         [m EXCEPT ![k.bufs[2]] =
            compute_threshold_kernel(k.dataT, k.p[1], m[k.bufs[1]], k.p[2],
                                     m[k.bufs[2]])]
    [] k.name = "half_l2_norm_kernel" ->
         [m EXCEPT ![k.bufs[2]] =
            half_l2_norm_kernel(k.dataT, k.p[1], k.p[2], m[k.bufs[1]], m[k.bufs[2]])]
    [] k.name = "compute_centroid_shifts_squared_kernel" ->
         [m EXCEPT ![k.bufs[3]] =
            compute_centroid_shifts_squared_kernel(k.dataT, k.p[1], k.p[2], m[k.bufs[1]], m[k.bufs[2]], m[k.bufs[3]])]
    [] k.name = "broadcast_division_kernel" ->
         [m EXCEPT ![k.bufs[1]] =
            broadcast_division_kernel(k.dataT, k.p[1], k.p[2], m[k.bufs[1]], m[k.bufs[2]])]
    [] OTHER -> m

ExecKernel ==
  \E i \in 1..Len(tasks) :
    /\ Ready(i)
    /\ tasks[i].kind = "kernel"
    /\ mem' = KernelEffect(tasks[i].k, mem)
    /\ done' = done \cup {i}
    /\ UNCHANGED <<tasks, ret, pre, wi, arrs>>

----------------------------------------------------------------------------
(* compute_threshold on well-formed arrays: a vector of n single or double *)
(* precision values and a one-element array of the same type, for every    *)
(* contents of both and every topk in 0..n; one call per behaviour.        *)

InitThreshold ==
  \E T \in SupportedData, n \in 1..MaxThresholdLen :
    /\ arrs = [data |-> Arr("data", <<n>>, T),
               threshold |-> Arr("threshold", <<1>>, T)]
    /\ mem \in {[data |-> Encode(T, d), threshold |-> Encode(T, <<t>>)] :
                 d \in [1..n -> InputValues(T)], t \in InputValues(T)}
    /\ tasks = <<>>
    /\ done = {ReadyEvent}
    /\ ret = NoReturn
    /\ pre = [mem |-> mem, ntasks |-> 0, args |-> NoArgs]
    /\ wi = <<>>

CallThreshold ==
  \E topk \in 0..get_shape(arrs.data, 0) :
    /\ ret.n = 0
    /\ HostCall("compute_threshold",
             py_compute_threshold(arrs.data, topk, arrs.threshold, ExecQueue, {}),
             [op |-> "compute_threshold", scalar |-> topk, badtype |-> FALSE])

NextThreshold == CallThreshold \/ ExecKernel \/ RunHostTask

SpecThreshold == InitThreshold /\ [][NextThreshold]_vars

(* The computation of the last call has completed. *)
Computed == ret.n > 0 /\ ~ret.raised /\ ret.comp \in done

(* C2: once compute_threshold with topk = t >= 1 has completed, the        *)
(* threshold array holds the t-th largest element of data, both read with  *)
(* the arrays' own element type, and the kernel that ran was instantiated  *)
(* with that type.                                                         *)
C2_ThresholdIsKthLargest ==
  (Computed /\ pre.args.scalar >= 1) =>
    LET T == arrs.data.typenum
        n == get_shape(arrs.data, 0)
    IN /\ tasks[ret.comp].k.dataT = T
       /\ Load(T, mem.threshold, 0)
            = KthLargest(View(T, pre.mem.data, n), pre.args.scalar)

(* The same for single-precision arrays only. *)
ThresholdIsKthLargestOfFloats ==
  (Computed /\ pre.args.scalar >= 1 /\ arrs.data.typenum = UAR_FLOAT_) =>
    /\ tasks[ret.comp].k.dataT = UAR_FLOAT_
    /\ Load(UAR_FLOAT_, mem.threshold, 0)
         = KthLargest(View(UAR_FLOAT_, pre.mem.data, get_shape(arrs.data, 0)),
                      pre.args.scalar)

(* C10: compute_threshold with topk = 0 on valid arguments returns without *)
(* raising, submits nothing, and leaves data and threshold as they were.   *)
C10_TopkZeroIsNoOp ==
  (ret.n > 0 /\ pre.args.scalar = 0) =>
    /\ ~ret.raised
    /\ tasks = <<>>
    /\ mem = pre.mem

C10_Witness ==
  /\ ret.n > 0 /\ pre.args.scalar = 0 /\ ~ret.raised
  /\ arrs.data.typenum = UAR_DOUBLE_
  /\ get_shape(arrs.data, 0) = MaxThresholdLen

----------------------------------------------------------------------------
(* reduce_centroid_data_kernel<dataT, indT>(q, n_copies, n_features,       *)
(* n_clusters, work_group_size, cluster_sizes_private_copies,              *)
(* centroids_t_private_copies, out_cluster_sizes, out_centroids_t,         *)
(* out_empty_clusters_list, out_n_empty_clusters, depends).                *)
(* The coordinate sums are written by work-items that share nothing.  One  *)
(* work-item per cluster sums the private sizes, and for a zero sum takes  *)
(* the next slot of the list with an atomic add on the counter and writes  *)
(* its cluster id there: three steps that interleave with the other        *)
(* clusters' work-items.  The counter counts from zero.                    *)

(* The sum over the copies of entry j of copies of stride elements each. *)
SumOverCopies(T, words, n_copies, stride, j) ==
  SeqSum([c \in 1..n_copies |-> Load(T, words, (c - 1) * stride + j)])

Idle == wi = <<>>

StartReduce ==
  \E i \in 1..Len(tasks) :
    /\ Idle
    /\ Ready(i)
    /\ tasks[i].kind = "kernel"
    /\ tasks[i].k.name = "reduce_centroid_data_kernel"
    /\ LET k == tasks[i].k
           n_copies == k.p[1]
           n_features == k.p[2]
           n_clusters == k.p[3]
           sums == [j \in 1..(n_features * n_clusters) |->
                      SumOverCopies(k.dataT, mem[k.bufs[2]], n_copies,
                                    n_features * n_clusters, j - 1)]
       IN /\ mem' = [mem EXCEPT
                       ![k.bufs[4]] = StoreAll(k.dataT, @, 0, sums),
                       ![k.bufs[6]] = Store(k.indT, @, 0, 0)]
          /\ wi' = [task |-> i,
                    items |-> [c \in 1..n_clusters |-> [pc |-> "sum", idx |-> 0]]]
    /\ UNCHANGED <<tasks, done, ret, pre, arrs>>

ReduceItem ==
  \E c \in DOMAIN (IF Idle THEN <<>> ELSE wi.items) :
    LET k == tasks[wi.task].k
        it == wi.items[c]
        cluster_idx == c - 1
        sum_ == SumOverCopies(k.dataT, mem[k.bufs[1]], k.p[1], k.p[3], cluster_idx)
        count == Load(k.indT, mem[k.bufs[6]], 0)
    IN /\ tasks[wi.task].k.name = "reduce_centroid_data_kernel"
       /\ CASE it.pc = "sum" ->
                 /\ mem' = [mem EXCEPT ![k.bufs[3]] =
                              Store(k.dataT, @, cluster_idx, sum_)]
                 /\ wi' = [wi EXCEPT !.items[c].pc =
                             IF sum_ = 0 THEN "count" ELSE "done"]
            [] it.pc = "count" ->
                 /\ mem' = [mem EXCEPT ![k.bufs[6]] =
                              Store(k.indT, @, 0, count + 1)]
                 /\ wi' = [wi EXCEPT !.items[c] = [pc |-> "write", idx |-> count]]
            [] it.pc = "write" ->
                 /\ mem' = [mem EXCEPT ![k.bufs[5]] =
                              Store(k.indT, @, it.idx, cluster_idx)]
                 /\ wi' = [wi EXCEPT !.items[c].pc = "done"]
            [] OTHER -> FALSE
       /\ UNCHANGED <<tasks, done, ret, pre, arrs>>

(* The kernel's event completes when its last work-item has finished. *)
FinishKernel ==
  /\ ~Idle
  /\ \A c \in DOMAIN wi.items : wi.items[c].pc = "done"
  /\ done' = done \cup {wi.task}
  /\ wi' = <<>>
  /\ UNCHANGED <<mem, tasks, ret, pre, arrs>>

----------------------------------------------------------------------------
(* reduce_centroids_data on well-formed arrays: every shape up to the      *)
(* bounds, private sizes of 0 and 1 in every combination, coordinates that *)
(* alternate with the flat index, and outputs that start as junk.          *)

Pattern(j, i) == (i \div j) % 2

Junk(T) == IF ElemWords(T) = 2 THEN WordBase + 1 ELSE 1

TypePairs == {<<UAR_FLOAT_, UAR_INT32_>>, <<UAR_DOUBLE_, UAR_INT64_>>}

InitReduce ==
  \E tp \in TypePairs, C \in 1..MaxCopies, F \in 1..MaxFeatures,
     K \in 1..MaxClusters, pat \in 1..MaxPattern :
    LET T == tp[1]
        I == tp[2]
    IN
    /\ arrs = [cluster_sizes_private_copies |->
                 Arr("cluster_sizes_private_copies", <<C, K>>, T),
               centroids_t_private_copies |->
                 Arr("centroids_t_private_copies", <<C, F, K>>, T),
               out_cluster_sizes |-> Arr("out_cluster_sizes", <<K>>, T),
               out_centroids_t |-> Arr("out_centroids_t", <<F, K>>, T),
               out_empty_clusters_list |->
                 Arr("out_empty_clusters_list", <<K>>, I),
               out_n_empty_clusters |-> Arr("out_n_empty_clusters", <<1>>, I)]
    /\ mem \in {[cluster_sizes_private_copies |-> Encode(T, sz),
                 centroids_t_private_copies |->
                   Encode(T, [i \in 1..(C * F * K) |-> Pattern(pat, i - 1)]),
                 out_cluster_sizes |-> Encode(T, [i \in 1..K |-> Junk(T)]),
                 out_centroids_t |-> Encode(T, [i \in 1..(F * K) |-> Junk(T)]),
                 out_empty_clusters_list |-> Encode(I, [i \in 1..K |-> 0]),
                 out_n_empty_clusters |-> Encode(I, <<Junk(I)>>)] :
                sz \in [1..(C * K) -> {0, 1}]}
    /\ tasks = <<>>
    /\ done = {ReadyEvent}
    /\ ret = NoReturn
    /\ pre = [mem |-> mem, ntasks |-> 0, args |-> NoArgs]
    /\ wi = <<>>

CallReduce ==
  /\ ret.n = 0
  /\ HostCall("reduce_centroids_data",
              py_reduce_centroids_data(arrs.cluster_sizes_private_copies,
                                       arrs.centroids_t_private_copies,
                                       arrs.out_cluster_sizes, arrs.out_centroids_t,
                                       arrs.out_empty_clusters_list,
                                       arrs.out_n_empty_clusters, ExecQueue, {}),
              [op |-> "reduce_centroids_data", scalar |-> 0, badtype |-> FALSE])

NextReduce == CallReduce \/ StartReduce \/ ReduceItem \/ FinishKernel \/ RunHostTask

SpecReduce == InitReduce /\ [][NextReduce]_vars

(* The shapes and types of the arrays of SpecReduce. *)
ReduceCopies == get_shape(arrs.cluster_sizes_private_copies, 0)
ReduceClusters == get_shape(arrs.cluster_sizes_private_copies, 1)
ReduceFeatures == get_shape(arrs.centroids_t_private_copies, 1)
ReduceDataT == arrs.cluster_sizes_private_copies.typenum
ReduceIndT == arrs.out_n_empty_clusters.typenum

OutSize(k) == Load(ReduceDataT, mem.out_cluster_sizes, k)

(* C3: once reduce_centroids_data has completed, every cluster's output    *)
(* size is the sum of its private sizes over the copies, and every output  *)
(* coordinate sum is the sum of the private coordinate sums over the       *)
(* copies, for every number of copies from one up.                         *)
C3_ReducedSums ==
  Computed =>
    /\ \A k \in 0..(ReduceClusters - 1) :
         OutSize(k) =
           SeqSum([c \in 1..ReduceCopies |->
                     Load(ReduceDataT, pre.mem.cluster_sizes_private_copies,
                          (c - 1) * ReduceClusters + k)])
    /\ \A f \in 0..(ReduceFeatures - 1), k \in 0..(ReduceClusters - 1) :
         Load(ReduceDataT, mem.out_centroids_t, f * ReduceClusters + k) =
           SeqSum([c \in 1..ReduceCopies |->
                     Load(ReduceDataT, pre.mem.centroids_t_private_copies,
                          ((c - 1) * ReduceFeatures + f) * ReduceClusters + k)])

(* Two copies both contribute to a size and to a coordinate sum. *)
C3_Witness ==
  /\ Computed
  /\ ReduceCopies >= 2 /\ ReduceFeatures >= 2 /\ ReduceClusters >= 2
  /\ \E k \in 0..(ReduceClusters - 1) : OutSize(k) = 2
  /\ \E j \in 0..(ReduceFeatures * ReduceClusters - 1) :
       Load(ReduceDataT, mem.out_centroids_t, j) = 2

(* The reduction with a single copy is reached too. *)
ReducedSingleCopy == Computed /\ ReduceCopies = 1 /\ ReduceClusters >= 2

EmptyCount == Load(ReduceIndT, mem.out_n_empty_clusters, 0)
EmptyPrefix == [j \in 1..EmptyCount |-> Load(ReduceIndT, mem.out_empty_clusters_list, j - 1)]

(* C4: once reduce_centroids_data has completed, whatever the order in     *)
(* which the work-items ran, the counter is the number of clusters of size *)
(* zero and the first counter entries of the list are exactly the ids of   *)
(* those clusters, each once.                                              *)
C4_EmptyListCompaction ==
  Computed =>
    LET empty == {k \in 0..(ReduceClusters - 1) : OutSize(k) = 0}
    IN /\ EmptyCount = Cardinality(empty)
       /\ {EmptyPrefix[j] : j \in 1..EmptyCount} = empty
       /\ \A i, j \in 1..EmptyCount : EmptyPrefix[i] = EmptyPrefix[j] => i = j

(* Two empty clusters whose ids were written in descending order. *)
C4_Witness ==
  /\ Computed
  /\ EmptyCount >= 2
  /\ EmptyPrefix[1] > EmptyPrefix[2]

----------------------------------------------------------------------------
(* select_samples_far_from_centroid_kernel<dataT, indT>(q, n_selected,     *)
(* n_samples, work_group_size, distance_to_centroid, threshold,            *)
(* selected_samples_idx, n_selected_gt_threshold, n_selected_eq_threshold, *)
(* depends).  One work-item per sample.  A sample farther than the         *)
(* threshold takes the next slot from the front with an atomic add on the  *)
(* first scalar; once those have their slots, a sample at the threshold takes a  *)
(* slot with an atomic add on the second scalar and fills the selection    *)
(* from its last element backwards while slots remain.  Nothing is written *)
(* past n_selected entries.  Both scalars count from zero.                 *)

Min(a, b) == IF a < b THEN a ELSE b

StartSelect ==
  \E i \in 1..Len(tasks) :
    /\ Idle
    /\ Ready(i)
    /\ tasks[i].kind = "kernel"
    /\ tasks[i].k.name = "select_samples_far_from_centroid_kernel"
    /\ LET k == tasks[i].k
           n_samples == k.p[2]
       IN /\ mem' = [mem EXCEPT ![k.bufs[4]] = Store(k.indT, @, 0, 0),
                                ![k.bufs[5]] = Store(k.indT, @, 0, 0)]
          /\ wi' = [task |-> i,
                    items |-> [c \in 1..n_samples |-> [pc |-> "test", idx |-> 0]]]
    /\ UNCHANGED <<tasks, done, ret, pre, arrs>>

SelectItem ==
  \E c \in DOMAIN (IF Idle THEN <<>> ELSE wi.items) :
    LET k == tasks[wi.task].k
        it == wi.items[c]
        n_selected == k.p[1]
        sample_idx == c - 1
        distance == Load(k.dataT, mem[k.bufs[1]], sample_idx)
        threshold == Load(k.dataT, mem[k.bufs[2]], 0)
        n_gt == Load(k.indT, mem[k.bufs[4]], 0)
        n_eq == Load(k.indT, mem[k.bufs[5]], 0)
        gt_placed == \A d \in DOMAIN wi.items : wi.items[d].pc # "test"
    IN /\ k.name = "select_samples_far_from_centroid_kernel"
       /\ CASE it.pc = "test" /\ distance > threshold ->
                 /\ mem' = [mem EXCEPT ![k.bufs[4]] = Store(k.indT, @, 0, n_gt + 1)]
                 /\ wi' = [wi EXCEPT !.items[c] =
                             IF n_gt < n_selected
                             THEN [pc |-> "write", idx |-> n_gt]
                             ELSE [pc |-> "done", idx |-> 0]]
            [] it.pc = "test" /\ distance = threshold ->
                 /\ wi' = [wi EXCEPT !.items[c].pc = "eq"]
                 /\ UNCHANGED mem
            [] it.pc = "test" /\ distance < threshold ->
                 /\ wi' = [wi EXCEPT !.items[c].pc = "done"]
                 /\ UNCHANGED mem
            [] it.pc = "eq" /\ gt_placed ->
                 /\ mem' = [mem EXCEPT ![k.bufs[5]] = Store(k.indT, @, 0, n_eq + 1)]
                 /\ wi' = [wi EXCEPT !.items[c] =
                             IF n_eq < n_selected - Min(n_gt, n_selected)
                             THEN [pc |-> "write", idx |-> n_selected - 1 - n_eq]
                             ELSE [pc |-> "done", idx |-> 0]]
            [] it.pc = "write" ->
                 /\ mem' = [mem EXCEPT ![k.bufs[3]] =
                              Store(k.indT, @, it.idx, sample_idx)]
                 /\ wi' = [wi EXCEPT !.items[c].pc = "done"]
            [] OTHER -> FALSE
       /\ UNCHANGED <<tasks, done, ret, pre, arrs>>

----------------------------------------------------------------------------
(* select_samples_far_from_centroid on well-formed arrays: every distance  *)
(* vector and threshold over 0..MaxDistance, an index array of n_samples   *)
(* or n_samples - 1 entries that starts filled with n_samples (no sample's *)
(* id), and every n_selected in 1..n_samples.                              *)

InitSelect ==
  \E tp \in TypePairs, n \in 1..MaxSamples :
    \E len \in {l \in {n - 1, n} : l >= 1} :
      LET T == tp[1]
          I == tp[2]
      IN
      /\ arrs = [distance_to_centroid |-> Arr("distance_to_centroid", <<n>>, T),
                 threshold |-> Arr("threshold", <<1>>, T),
                 selected_samples_idx |-> Arr("selected_samples_idx", <<len>>, I),
                 n_selected_gt_threshold |-> Arr("n_selected_gt_threshold", <<1>>, I),
                 n_selected_eq_threshold |-> Arr("n_selected_eq_threshold", <<1>>, I)]
      /\ mem \in {[distance_to_centroid |-> Encode(T, d),
                   threshold |-> Encode(T, <<t>>),
                   selected_samples_idx |-> Encode(I, [i \in 1..len |-> n]),
                   n_selected_gt_threshold |-> Encode(I, <<Junk(I)>>),
                   n_selected_eq_threshold |-> Encode(I, <<Junk(I)>>)] :
                  d \in [1..n -> 0..MaxDistance], t \in 0..MaxDistance}
      /\ tasks = <<>>
      /\ done = {ReadyEvent}
      /\ ret = NoReturn
      /\ pre = [mem |-> mem, ntasks |-> 0, args |-> NoArgs]
      /\ wi = <<>>

CallSelect ==
  \E n_selected \in 1..get_shape(arrs.distance_to_centroid, 0) :
    /\ ret.n = 0
    /\ HostCall("select_samples_far_from_centroid",
                py_select_samples_far_from_centroid(n_selected,
                    arrs.distance_to_centroid, arrs.threshold,
                    arrs.selected_samples_idx, arrs.n_selected_gt_threshold,
                    arrs.n_selected_eq_threshold, ExecQueue, {}),
                [op |-> "select_samples_far_from_centroid", scalar |-> n_selected, badtype |-> FALSE])

NextSelect == CallSelect \/ StartSelect \/ SelectItem \/ FinishKernel \/ RunHostTask

SpecSelect == InitSelect /\ [][NextSelect]_vars

SelectSamples == get_shape(arrs.distance_to_centroid, 0)
SelectDataT == arrs.distance_to_centroid.typenum
SelectIndT == arrs.selected_samples_idx.typenum
SelectDistance(i) == Load(SelectDataT, mem.distance_to_centroid, i)
SelectThreshold == Load(SelectDataT, mem.threshold, 0)
SelectedIdx(j) == Load(SelectIndT, mem.selected_samples_idx, j)

(* The slots of selected_samples_idx that hold a sample's id. *)
SelectWritten ==
  {j \in 0..(get_shape(arrs.selected_samples_idx, 0) - 1) : SelectedIdx(j) \in 0..(SelectSamples - 1)}

SamplesGt == {i \in 0..(SelectSamples - 1) : SelectDistance(i) > SelectThreshold}
SamplesEq == {i \in 0..(SelectSamples - 1) : SelectDistance(i) = SelectThreshold}

----------------------------------------------------------------------------
(* relocate_empty_clusters<dataT, indT>(q, n_samples, n_features,          *)
(* n_clusters, work_group_size, n_empty_clusters, X_t, sample_weights,     *)
(* assignment_id, empty_clusters_list, sq_dist_to_nearest_centroid,        *)
(* centroid_t, cluster_sizes, per_sample_inertia, depends).  The           *)
(* n_empty_clusters farthest samples are selected as by compute_threshold  *)
(* and select_samples_far_from_centroid (which of the samples at the       *)
(* threshold are taken, and in which order, depends on the scheduling).    *)
(* One work-item per relocation then seeds the cluster with the sample and *)
(* takes the sample's weight off its originating cluster with an atomic    *)
(* subtraction; the work-items interleave.                                 *)

InjectiveSeqs(S, n) ==
  {s \in [1..n -> S] : \A i, j \in 1..n : s[i] = s[j] => i = j}

(* The selections of n_selected samples for the distances dist: every      *)
(* sample above the n_selected-th largest distance, in some order, then    *)
(* samples at it.                                                          *)
Selections(dist, n_selected) ==
  LET t == KthLargest(dist, n_selected)
      n_gt == Cardinality({i \in 1..Len(dist) : dist[i] > t})
  IN {s \in InjectiveSeqs(0..(Len(dist) - 1), n_selected) :
        \A r \in 1..n_selected :
          IF r <= n_gt THEN dist[s[r] + 1] > t ELSE dist[s[r] + 1] = t}

StartRelocate ==
  \E i \in 1..Len(tasks) :
    /\ Idle
    /\ Ready(i)
    /\ tasks[i].kind = "kernel"
    /\ tasks[i].k.name = "relocate_empty_clusters"
    /\ LET k == tasks[i].k
           n_samples == k.p[1]
           n_empty_clusters == k.p[5]
           dist == View(k.dataT, mem[k.bufs[5]], n_samples)
       IN \E sel \in Selections(dist, n_empty_clusters) :
            wi' = [task |-> i,
                   items |-> [r \in 1..n_empty_clusters |->
                                [pc |-> "seed", idx |-> sel[r]]]]
    /\ UNCHANGED <<mem, tasks, done, ret, pre, arrs>>

RelocateItem ==
  \E r \in DOMAIN (IF Idle THEN <<>> ELSE wi.items) :
    LET k == tasks[wi.task].k
        it == wi.items[r]
        n_samples == k.p[1]
        n_features == k.p[2]
        n_clusters == k.p[3]
        sample_idx == it.idx
        cluster_idx == Load(k.indT, mem[k.bufs[4]], r - 1)
        previous == Load(k.indT, mem[k.bufs[3]], sample_idx)
        weight == Load(k.dataT, mem[k.bufs[2]], sample_idx)
        seed == [f \in 1..n_features |->
                   weight * Load(k.dataT, mem[k.bufs[1]], (f - 1) * n_samples + sample_idx)]
        RECURSIVE StoreColumn(_, _)
        StoreColumn(words, f) ==
          IF f > n_features THEN words
          ELSE StoreColumn(Store(k.dataT, words, (f - 1) * n_clusters + cluster_idx, seed[f]), f + 1)
    IN /\ k.name = "relocate_empty_clusters"
       /\ CASE it.pc = "seed" ->
                 /\ mem' = [mem EXCEPT
                              ![k.bufs[6]] = StoreColumn(@, 1),
                              ![k.bufs[7]] = Store(k.dataT, @, cluster_idx, weight),
                              ![k.bufs[8]] = Store(k.dataT, @, sample_idx, 0)]
                 /\ wi' = [wi EXCEPT !.items[r].pc = "sub"]
            [] it.pc = "sub" ->
                 /\ mem' = [mem EXCEPT ![k.bufs[7]] =
                              Store(k.dataT, @, previous,
                                    Load(k.dataT, @, previous) - weight)]
                 /\ wi' = [wi EXCEPT !.items[r].pc = "done"]
            [] OTHER -> FALSE
       /\ UNCHANGED <<tasks, done, ret, pre, arrs>>

----------------------------------------------------------------------------
(* relocate_empty_clusters on the state an iteration leaves: the samples   *)
(* are spread over the first `used` clusters, the sizes are the sums of    *)
(* the weights of the assigned samples, the list holds the clusters of     *)
(* size zero in some order, the inertia is the squared distance.  Weights  *)
(* run over 0..MaxDistance, distances over 1 and 2 with ties.              *)

InitRelocate ==
  \E tp \in TypePairs, N \in 1..MaxSamples, K \in 2..(MaxEmpty + 1), F \in 1..MaxFeatures :
    \E used \in 1..(K - 1), pw \in 0..MaxDistance, pd \in 1..MaxPattern :
      LET T == tp[1]
          I == tp[2]
          weights == [i \in 1..N |-> (i - 1 + pw) % (MaxDistance + 1)]
          assignment == [i \in 1..N |-> (i - 1) % used]
          dist == [i \in 1..N |-> 1 + Pattern(pd, i - 1)]
          sizes == [k \in 1..K |->
                      SeqSum([i \in 1..N |-> IF assignment[i] = k - 1 THEN weights[i] ELSE 0])]
          empty == {k \in 0..(K - 1) : sizes[k + 1] = 0}
      IN
      /\ arrs = [X_t |-> Arr("X_t", <<F, N>>, T),
                 sample_weights |-> Arr("sample_weights", <<N>>, T),
                 assignment_id |-> Arr("assignment_id", <<N>>, I),
                 empty_clusters_list |-> Arr("empty_clusters_list", <<K>>, I),
                 sq_dist_to_nearest_centroid |->
                   Arr("sq_dist_to_nearest_centroid", <<N>>, T),
                 centroid_t |-> Arr("centroid_t", <<F, K>>, T),
                 cluster_sizes |-> Arr("cluster_sizes", <<K>>, T),
                 per_sample_inertia |-> Arr("per_sample_inertia", <<N>>, T)]
      /\ mem \in {[X_t |-> Encode(T, [j \in 1..(F * N) |-> 1 + Pattern(1, j - 1)]),
                   sample_weights |-> Encode(T, weights),
                   assignment_id |-> Encode(I, assignment),
                   empty_clusters_list |->
                     Encode(I, [k \in 1..K |-> IF k <= Len(list) THEN list[k] ELSE 0]),
                   sq_dist_to_nearest_centroid |-> Encode(T, dist),
                   centroid_t |-> Encode(T, [j \in 1..(F * K) |-> 0]),
                   cluster_sizes |-> Encode(T, sizes),
                   per_sample_inertia |-> Encode(T, dist)] :
                  list \in InjectiveSeqs(empty, Cardinality(empty))}
      /\ tasks = <<>>
      /\ done = {ReadyEvent}
      /\ ret = NoReturn
      /\ pre = [mem |-> mem, ntasks |-> 0, args |-> NoArgs]
      /\ wi = <<>>

RelocSamples == get_shape(arrs.X_t, 1)
RelocFeatures == get_shape(arrs.X_t, 0)
RelocClusters == get_shape(arrs.empty_clusters_list, 0)
RelocDataT == arrs.X_t.typenum
RelocIndT == arrs.assignment_id.typenum
ClusterSize(m, k) == Load(RelocDataT, m.cluster_sizes, k)
Centroid(m, f, k) == Load(RelocDataT, m.centroid_t, f * RelocClusters + k)
Sample(m, f, i) == Load(RelocDataT, m.X_t, f * RelocSamples + i)
Weight(m, i) == Load(RelocDataT, m.sample_weights, i)
Inertia(m, i) == Load(RelocDataT, m.per_sample_inertia, i)
Assigned(m, i) == Load(RelocIndT, m.assignment_id, i)
EmptyCluster(m, r) == Load(RelocIndT, m.empty_clusters_list, r - 1)
TotalSize(m) == SeqSum([k \in 1..RelocClusters |-> ClusterSize(m, k - 1)])

(* Every n_empty_clusters from 1 to the number of clusters of size zero,   *)
(* and no more than there are samples.                                     *)
CallRelocate ==
  \E n_empty_clusters \in 1..Min(RelocSamples, Cardinality({k \in 0..(RelocClusters - 1) : ClusterSize(mem, k) = 0})) :
    /\ ret.n = 0
    /\ HostCall("relocate_empty_clusters",
                py_relocate_empty_clusters(n_empty_clusters, arrs.X_t,
                    arrs.sample_weights, arrs.assignment_id,
                    arrs.empty_clusters_list, arrs.sq_dist_to_nearest_centroid,
                    arrs.centroid_t, arrs.cluster_sizes, arrs.per_sample_inertia,
                    ExecQueue, {}),
                [op |-> "relocate_empty_clusters", scalar |-> n_empty_clusters, badtype |-> FALSE])

NextRelocate == CallRelocate \/ StartRelocate \/ RelocateItem \/ FinishKernel \/ RunHostTask

SpecRelocate == InitRelocate /\ [][NextRelocate]_vars

(* C6: once relocate_empty_clusters has completed, whatever the order in   *)
(* which the relocations ran, the sum of the cluster sizes over all        *)
(* clusters is what it was before the call.                                *)
C6_WeightConserved ==
  Computed => TotalSize(mem) = TotalSize(pre.mem)

(* Two relocated samples of nonzero weight come from the same cluster. *)
C6_Witness ==
  /\ Computed
  /\ pre.args.scalar >= 2
  /\ \E i, j \in 0..(RelocSamples - 1) :
       /\ i # j
       /\ Inertia(mem, i) = 0 /\ Inertia(mem, j) = 0
       /\ Assigned(mem, i) = Assigned(mem, j)
       /\ Weight(mem, i) > 0 /\ Weight(mem, j) > 0

(* The samples at or beyond the n-th largest distance. *)
FarSamples(n) ==
  LET dist == View(RelocDataT, mem.sq_dist_to_nearest_centroid, RelocSamples)
  IN {i \in 0..(RelocSamples - 1) : dist[i + 1] >= KthLargest(dist, n)}

----------------------------------------------------------------------------
(* assignment<dataT, indT, 8, 4>(q, n_samples, n_features, n_clusters,     *)
(* centroids_window_height, work_group_size, X_t, centroid_t,              *)
(* centroids_half_l2_norm, assignment_id, depends).  One work-item per     *)
(* sample; the centroids pass through in windows of                        *)
(* centroids_window_height, in index order, the work-items of a work-group *)
(* moving to the next window together.  A work-item keeps the lowest       *)
(* score half-norm minus dot product seen so far and the id it was first   *)
(* seen at, and writes that id after the last window.                      *)

Score(T, m, k, n_samples, n_features, n_clusters, sample_idx, centroid_idx) ==
  Load(T, m[k.bufs[3]], centroid_idx)
    - SeqSum([f \in 1..n_features |->
                Load(T, m[k.bufs[1]], (f - 1) * n_samples + sample_idx)
                  * Load(T, m[k.bufs[2]], (f - 1) * n_clusters + centroid_idx)])

RECURSIVE ScanWindow(_, _, _, _)
(* The item after the centroids from..to - 1, given the scores. *)
ScanWindow(it, score, from, to) ==
  IF from >= to THEN it
  ELSE ScanWindow(IF it.arg < 0 \/ score[from + 1] < it.best
                  THEN [it EXCEPT !.best = score[from + 1], !.arg = from]
                  ELSE it,
                  score, from + 1, to)

StartAssignment ==
  \E i \in 1..Len(tasks) :
    /\ Idle
    /\ Ready(i)
    /\ tasks[i].kind = "kernel"
    /\ tasks[i].k.name = "assignment"
    /\ wi' = [task |-> i,
              items |-> [c \in 1..tasks[i].k.p[1] |->
                           [pc |-> "scan", idx |-> 0, best |-> 0, arg |-> -1]]]
    /\ UNCHANGED <<mem, tasks, done, ret, pre, arrs>>

AssignmentItem ==
  \E c \in DOMAIN (IF Idle THEN <<>> ELSE wi.items) :
    LET k == tasks[wi.task].k
        it == wi.items[c]
        n_samples == k.p[1]
        n_features == k.p[2]
        n_clusters == k.p[3]
        centroids_window_height == k.p[4]
        work_group_size == k.p[5]
        sample_idx == c - 1
        group == {d \in DOMAIN wi.items :
                    (d - 1) \div work_group_size = sample_idx \div work_group_size}
        score == [j \in 1..n_clusters |->
                    Score(k.dataT, mem, k, n_samples, n_features, n_clusters,
                          sample_idx, j - 1)]
    IN /\ k.name = "assignment"
       /\ it.pc = "scan"
       /\ IF it.idx < n_clusters
          THEN /\ \A d \in group : wi.items[d].idx >= it.idx
               /\ wi' = [wi EXCEPT !.items[c] =
                           [ScanWindow(it, score, it.idx,
                                       Min(it.idx + centroids_window_height, n_clusters))
                              EXCEPT !.idx = it.idx + centroids_window_height]]
               /\ UNCHANGED mem
          ELSE /\ mem' = [mem EXCEPT ![k.bufs[4]] =
                            Store(k.indT, @, sample_idx, it.arg)]
               /\ wi' = [wi EXCEPT !.items[c].pc = "done"]
       /\ UNCHANGED <<tasks, done, ret, pre, arrs>>

----------------------------------------------------------------------------
(* assignment on well-formed arrays: coordinates of samples and centroids  *)
(* that alternate with the flat index, every vector of half-norms over 0   *)
(* and 1 (so that scores tie), every window height and work-group size.    *)

InitAssignment ==
  \E tp \in TypePairs, N \in 1..MaxBlock, F \in 1..MaxFeatures, K \in 1..MaxClusters :
    \E pat \in 1..MaxPattern :
      LET T == tp[1]
          I == tp[2]
      IN
      /\ arrs = [X_t |-> Arr("X_t", <<F, N>>, T),
                 centroid_t |-> Arr("centroid_t", <<F, K>>, T),
                 centroids_half_l2_norm |-> Arr("centroids_half_l2_norm", <<K>>, T),
                 assignment_id |-> Arr("assignment_id", <<N>>, I)]
      /\ mem \in {[X_t |-> Encode(T, [j \in 1..(F * N) |-> Pattern(1, j)]),
                   centroid_t |-> Encode(T, [j \in 1..(F * K) |-> Pattern(pat, j - 1)]),
                   centroids_half_l2_norm |-> Encode(T, h),
                   assignment_id |-> Encode(I, [j \in 1..N |-> Junk(I)])] :
                  h \in [1..K -> {0, 1}]}
      /\ tasks = <<>>
      /\ done = {ReadyEvent}
      /\ ret = NoReturn
      /\ pre = [mem |-> mem, ntasks |-> 0, args |-> NoArgs]
      /\ wi = <<>>

CallAssignment ==
  \E centroids_window_height \in 1..MaxClusters, work_group_size \in 1..MaxBlock :
    /\ ret.n = 0
    /\ HostCall("assignment",
                py_assignment(arrs.X_t, arrs.centroid_t, arrs.centroids_half_l2_norm,
                              arrs.assignment_id, centroids_window_height,
                              work_group_size, ExecQueue, {}),
                [op |-> "assignment", scalar |-> centroids_window_height, badtype |-> FALSE])

NextAssignment == CallAssignment \/ StartAssignment \/ AssignmentItem \/ FinishKernel \/ RunHostTask

SpecAssignment == InitAssignment /\ [][NextAssignment]_vars

AssignSamples == get_shape(arrs.X_t, 1)
AssignFeatures == get_shape(arrs.X_t, 0)
AssignClusters == get_shape(arrs.centroids_half_l2_norm, 0)
AssignDataT == arrs.X_t.typenum
AssignIndT == arrs.assignment_id.typenum
AssignedId(n) == Load(AssignIndT, mem.assignment_id, n)

(* Half squared norm of centroid k minus the dot product of sample n and   *)
(* centroid k.                                                             *)
HalfNormMinusDot(n, k) ==
  Load(AssignDataT, mem.centroids_half_l2_norm, k)
    - SeqSum([f \in 1..AssignFeatures |->
                Load(AssignDataT, mem.X_t, (f - 1) * AssignSamples + n)
                  * Load(AssignDataT, mem.centroid_t, (f - 1) * AssignClusters + k)])

(* C8: once assignment has completed, whatever the order in which the      *)
(* work-items ran, every sample's id is that of a centroid of minimal      *)
(* half-norm minus dot product, and the lowest such id.                    *)
C8_AssignmentIsLowestArgmin ==
  Computed =>
    \A n \in 0..(AssignSamples - 1) :
      /\ AssignedId(n) \in 0..(AssignClusters - 1)
      /\ \A k \in 0..(AssignClusters - 1) :
           /\ HalfNormMinusDot(n, AssignedId(n)) <= HalfNormMinusDot(n, k)
           /\ k < AssignedId(n) => HalfNormMinusDot(n, AssignedId(n)) < HalfNormMinusDot(n, k)

(* With windows of one centroid, one sample's two centroids tie and it     *)
(* gets the first, while another sample gets the second.                   *)
C8_Witness ==
  /\ Computed
  /\ pre.args.scalar = 1
  /\ AssignClusters >= 2
  /\ \E n, o \in 0..(AssignSamples - 1) :
       /\ AssignedId(n) = 0
       /\ HalfNormMinusDot(n, 0) = HalfNormMinusDot(n, 1)
       /\ AssignedId(o) = 1

----------------------------------------------------------------------------
(* Properties of the scalar arguments, over the calls of SpecCalls. *)

CountOps == {"compute_threshold", "select_samples_far_from_centroid", "relocate_empty_clusters"}

ZeroTopkAccepted ==
  ret.n > 0 /\ ret.op = "compute_threshold" /\ pre.args.scalar = 0 /\ ~ret.raised

(* C12: every call in which some array argument is not C-contiguous       *)
(* raises, whichever entry point and whichever array it is.                *)
C12_LayoutRejected ==
  [][(IsCall /\ \E i \in DOMAIN pre'.args.arrays : ~pre'.args.arrays[i].contig)
       => ret'.raised]_vars

(* The arrays all_c_contiguous is not given: threshold,                    *)
(* n_selected_gt_threshold and n_selected_eq_threshold of                  *)
(* select_samples_far_from_centroid.                                       *)
LayoutUnchecked(op) ==
  IF op = "select_samples_far_from_centroid" THEN {2, 4, 5} ELSE {}

(* Every other array is covered by the layout check of its entry point. *)
LayoutRejectedWhereChecked ==
  [][(IsCall /\ \E i \in DOMAIN pre'.args.arrays \ LayoutUnchecked(pre'.args.op) :
                  ~pre'.args.arrays[i].contig)
       => ret'.raised]_vars

----------------------------------------------------------------------------
(* Properties of the two returned events. *)

Range(f) == {f[i] : i \in DOMAIN f}

(* The call has submitted a kernel. *)
SubmittedWork == ret.n > 0 /\ ~ret.raised /\ ret.comp # ReadyEvent

(* The buffers a keep-alive task that has not run yet still holds. *)
HeldAlive ==
  UNION {Range(tasks[j].holds) :
           j \in {i \in 1..Len(tasks) : tasks[i].kind = "host_task" /\ i \notin done}}

(* The kernel's buffers that must outlive the kernel, less those in omit:  *)
(* while the computation event has not fired each is held, and the         *)
(* keep-alive event has not fired.                                         *)
KeptAliveExcept(omit) ==
  SubmittedWork =>
    /\ ret.ht \in done => ret.comp \in done
    /\ ret.comp \notin done =>
         Range(tasks[ret.comp].k.bufs) \ omit \subseteq HeldAlive

(* C13: after every call that submits work, the keep-alive event does not  *)
(* fire before the computation event, and until the computation event has  *)
(* fired every array the kernel was given is held by the keep-alive task,  *)
(* per_sample_inertia of relocate_empty_clusters included.                 *)
C13_ArgumentsKeptAlive == KeptAliveExcept({})

(* The same with per_sample_inertia left out. *)
ArgumentsKeptAliveButInertia == KeptAliveExcept({"per_sample_inertia"})

----------------------------------------------------------------------------
(* half_l2_norm_squared on every matrix of entries 0 and 2 (so that the    *)
(* halves are whole) and a vector as long as the matrix has columns, or    *)
(* rows.                                                                   *)

InitHalfNorm ==
  \E T \in SupportedData, F \in 1..MaxFeatures, K \in 1..MaxClusters, len \in 1..MaxClusters :
    \E x \in [1..(F * K) -> {0, 2}] :
      /\ len \in {F, K}
      /\ arrs = [X |-> Arr("X", <<F, K>>, T), y |-> Arr("y", <<len>>, T)]
      /\ mem = [X |-> Encode(T, x),
                y |-> Encode(T, [j \in 1..len |-> Junk(T)])]
      /\ tasks = <<>>
      /\ done = {ReadyEvent}
      /\ ret = NoReturn
      /\ pre = [mem |-> mem, ntasks |-> 0, args |-> NoArgs]
      /\ wi = <<>>

CallHalfNorm ==
  /\ ret.n = 0
  /\ HostCall("half_l2_norm_squared",
              py_half_l2_norm_squared(arrs.X, arrs.y, ExecQueue, {}),
              [op |-> "half_l2_norm_squared", scalar |-> 0, badtype |-> FALSE])

NextHalfNorm == CallHalfNorm \/ ExecKernel \/ RunHostTask

SpecHalfNorm == InitHalfNorm /\ [][NextHalfNorm]_vars

(* Twice entry j of y, and the sum of the squares of column j of X. *)
TwiceHalfNorm(j) == 2 * Load(arrs.y.typenum, mem.y, j)
ColumnSquares(j) ==
  SeqSum([f \in 1..get_shape(arrs.X, 0) |->
            Load(arrs.X.typenum, mem.X, (f - 1) * get_shape(arrs.X, 1) + j)
              * Load(arrs.X.typenum, mem.X, (f - 1) * get_shape(arrs.X, 1) + j)])

HalfNormRowCountRefused ==
  ret.raised /\ get_shape(arrs.y, 0) = get_shape(arrs.X, 0)

----------------------------------------------------------------------------
(* compute_centroid_shifts_squared on every old matrix of entries 0 and 1  *)
(* and a new matrix that is the old one moved by 0, 1 or 2 along a         *)
(* pattern; the two matrices are passed in either order.                   *)

InitShifts ==
  \E T \in SupportedData, F \in 1..MaxFeatures, K \in 1..MaxClusters :
    \E old \in [1..(F * K) -> {0, 1}], by \in 0..2, pat \in 1..MaxPattern :
      /\ arrs = [old_centroid_t |-> Arr("old_centroid_t", <<F, K>>, T),
                 new_centroid_t |-> Arr("new_centroid_t", <<F, K>>, T),
                 centroid_shifts |-> Arr("centroid_shifts", <<K>>, T)]
      /\ mem = [old_centroid_t |-> Encode(T, old),
                new_centroid_t |->
                  Encode(T, [j \in 1..(F * K) |-> old[j] + by * Pattern(pat, j - 1)]),
                centroid_shifts |-> Encode(T, [j \in 1..K |-> Junk(T)])]
      /\ tasks = <<>>
      /\ done = {ReadyEvent}
      /\ ret = NoReturn
      /\ pre = [mem |-> mem, ntasks |-> 0, args |-> NoArgs]
      /\ wi = <<>>

CallShifts ==
  \E swapped \in {0, 1} :
    /\ ret.n = 0
    /\ HostCall("compute_centroid_shifts_squared",
                IF swapped = 1
                THEN py_compute_centroid_shifts_squared_kernel(arrs.new_centroid_t, arrs.old_centroid_t, arrs.centroid_shifts, ExecQueue, {})
                ELSE py_compute_centroid_shifts_squared_kernel(arrs.old_centroid_t, arrs.new_centroid_t, arrs.centroid_shifts, ExecQueue, {}),
                [op |-> "compute_centroid_shifts_squared", scalar |-> swapped, badtype |-> FALSE])

NextShifts == CallShifts \/ ExecKernel \/ RunHostTask

SpecShifts == InitShifts /\ [][NextShifts]_vars

Shift(k) == Load(arrs.centroid_shifts.typenum, mem.centroid_shifts, k)
OldEntry(f, k) == Load(arrs.old_centroid_t.typenum, mem.old_centroid_t, f * get_shape(arrs.old_centroid_t, 1) + k)
NewEntry(f, k) == Load(arrs.new_centroid_t.typenum, mem.new_centroid_t, f * get_shape(arrs.new_centroid_t, 1) + k)

(* C15: once compute_centroid_shifts_squared has completed, with the two   *)
(* matrices passed as (old, new) or as (new, old), every cluster's entry   *)
(* is the sum over the features of the squared difference of the old and   *)
(* the new entry, and every entry is zero when the matrices are equal.     *)
C15_ShiftsSquared ==
  Computed =>
    /\ \A k \in 0..(get_shape(arrs.centroid_shifts, 0) - 1) :
         Shift(k) =
           SeqSum([f \in 1..get_shape(arrs.old_centroid_t, 0) |->
                     (OldEntry(f - 1, k) - NewEntry(f - 1, k))
                       * (OldEntry(f - 1, k) - NewEntry(f - 1, k))])
    /\ mem.old_centroid_t = mem.new_centroid_t =>
         \A k \in 0..(get_shape(arrs.centroid_shifts, 0) - 1) : Shift(k) = 0

(* The matrices passed as (new, old), one cluster moved by 2 along both    *)
(* features and another one not moved.                                     *)
C15_Witness ==
  /\ Computed
  /\ pre.args.scalar = 1
  /\ get_shape(arrs.old_centroid_t, 0) >= 2
  /\ \E i, j \in 0..(get_shape(arrs.centroid_shifts, 0) - 1) :
       Shift(i) = 8 /\ Shift(j) = 0

(* Equal matrices. *)
ShiftsOfEqualMatrices ==
  Computed /\ mem.old_centroid_t = mem.new_centroid_t /\ get_shape(arrs.centroid_shifts, 0) >= 2

----------------------------------------------------------------------------
(* The events passed as depends. *)

(* The call was accepted and some event of its depends is not complete. *)
PredecessorPending ==
  /\ ret.n > 0 /\ ~ret.raised
  /\ \E e \in pre.args.depends : e \notin done

(* C17: while an event passed as depends is not complete, an accepted call *)
(* has written nothing and neither of the two events it returned is        *)
(* complete, for every entry point and every return path.                  *)
C17_WaitsForDepends ==
  PredecessorPending =>
    /\ mem = pre.mem
    /\ ret.ht \notin done
    /\ ret.comp \notin done

(* The same for every call but compute_threshold with topk = 0. *)
WaitsForDependsUnlessTopkZero ==
  (PredecessorPending /\ ~(pre.args.op = "compute_threshold" /\ pre.args.scalar = 0)) =>
    /\ mem = pre.mem
    /\ ret.ht \notin done
    /\ ret.comp \notin done

(* A call with a pending predecessor whose work then ran to the end. *)
ChainedAfterPredecessor ==
  /\ ret.n > 0 /\ ~ret.raised
  /\ PredEvent \in pre.args.depends
  /\ ret.comp # ReadyEvent
  /\ PredEvent \in done /\ ret.ht \in done /\ mem # pre.mem

----------------------------------------------------------------------------
(* The count passed to relocate_empty_clusters. *)

(* C19: every accepted call of relocate_empty_clusters has                 *)
(* n_empty_clusters no larger than the length of empty_clusters_list and   *)
(* no larger than the number of samples.                                   *)
C19_EmptyCountWithinBounds ==
  [][(IsCall /\ pre'.args.op = "relocate_empty_clusters" /\ ~ret'.raised) =>
       /\ pre'.args.scalar <= get_shape(pre'.args.arrays[4], 0)
       /\ pre'.args.scalar <= get_shape(pre'.args.arrays[1], 1)]_vars

(* What the entry point does establish of the count. *)
EmptyCountNonZero ==
  [][(IsCall /\ pre'.args.op = "relocate_empty_clusters" /\ ~ret'.raised) =>
       pre'.args.scalar # 0]_vars

(* An accepted call with more empty clusters than samples. *)
EmptyCountBeyondSamples ==
  /\ ret.op = "relocate_empty_clusters" /\ ~ret.raised
  /\ pre.args.scalar > get_shape(pre.args.arrays[1], 1)
  /\ pre.args.scalar > get_shape(pre.args.arrays[4], 0)

----------------------------------------------------------------------------
(* compute_distances<dataT, 8, 4>(q, n_samples, n_features, n_clusters,    *)
(* centroids_window_height, work_group_size, X_t, centroid_t,              *)
(* euclidean_distances_t, depends).  One work-item per sample; the         *)
(* centroids pass through in windows of centroids_window_height, as in     *)
(* assignment, the work-items of a work-group moving to the next window    *)
(* together.  For every centroid of the window a work-item accumulates the *)
(* squared differences over the features and writes the sum to its column  *)
(* of the centroid's row of euclidean_distances_t.                         *)

RECURSIVE WriteWindow(_, _, _, _, _, _)
(* The words of euclidean_distances_t after the distances of sample_idx to *)
(* the centroids from..to - 1 are written.                                 *)
WriteWindow(k, m, words, sample_idx, from, to) ==
  IF from >= to THEN words
  ELSE WriteWindow(k, m,
         Store(k.dataT, words, from * k.p[1] + sample_idx,
               SeqSum([f \in 1..k.p[2] |->
                         (Load(k.dataT, m[k.bufs[1]], (f - 1) * k.p[1] + sample_idx)
                            - Load(k.dataT, m[k.bufs[2]], (f - 1) * k.p[3] + from))
                         * (Load(k.dataT, m[k.bufs[1]], (f - 1) * k.p[1] + sample_idx)
                              - Load(k.dataT, m[k.bufs[2]], (f - 1) * k.p[3] + from))])),
         sample_idx, from + 1, to)

StartDistances ==
  \E i \in 1..Len(tasks) :
    /\ Idle
    /\ Ready(i)
    /\ tasks[i].kind = "kernel"
    /\ tasks[i].k.name = "compute_distances"
    /\ wi' = [task |-> i,
              items |-> [c \in 1..tasks[i].k.p[1] |-> [pc |-> "scan", idx |-> 0]]]
    /\ UNCHANGED <<mem, tasks, done, ret, pre, arrs>>

DistancesItem ==
  \E c \in DOMAIN (IF Idle THEN <<>> ELSE wi.items) :
    LET k == tasks[wi.task].k
        it == wi.items[c]
        n_clusters == k.p[3]
        centroids_window_height == k.p[4]
        work_group_size == k.p[5]
        sample_idx == c - 1
        group == {d \in DOMAIN wi.items :
                    (d - 1) \div work_group_size = sample_idx \div work_group_size}
    IN /\ k.name = "compute_distances"
       /\ it.pc = "scan"
       /\ IF it.idx < n_clusters
          THEN /\ \A d \in group : wi.items[d].idx >= it.idx
               /\ mem' = [mem EXCEPT ![k.bufs[3]] =
                            WriteWindow(k, mem, @, sample_idx, it.idx,
                                        Min(it.idx + centroids_window_height, n_clusters))]
               /\ wi' = [wi EXCEPT !.items[c].idx = it.idx + centroids_window_height]
          ELSE /\ wi' = [wi EXCEPT !.items[c].pc = "done"]
               /\ UNCHANGED mem
       /\ UNCHANGED <<tasks, done, ret, pre, arrs>>

----------------------------------------------------------------------------
(* compute_centroid_to_sample_distances or assignment on the same          *)
(* well-formed arrays, with every window height and work-group size up to  *)
(* the bounds: coordinates and half-norms that alternate with the flat     *)
(* index, outputs that start as junk.                                      *)

InitTuned ==
  \E tp \in TypePairs, N \in 1..MaxSamples, F \in 1..MaxFeatures, K \in 1..MaxWindow :
    \E pat \in 1..MaxPattern :
      LET T == tp[1]
          I == tp[2]
      IN
      /\ arrs = [X_t |-> Arr("X_t", <<F, N>>, T),
                 centroid_t |-> Arr("centroid_t", <<F, K>>, T),
                 centroids_half_l2_norm |-> Arr("centroids_half_l2_norm", <<K>>, T),
                 assignment_id |-> Arr("assignment_id", <<N>>, I),
                 euclidean_distances_t |-> Arr("euclidean_distances_t", <<K, N>>, T)]
      /\ mem = [X_t |-> Encode(T, [j \in 1..(F * N) |-> 2 * Pattern(1, j)]),
                centroid_t |-> Encode(T, [j \in 1..(F * K) |-> Pattern(pat, j - 1)]),
                centroids_half_l2_norm |-> Encode(T, [j \in 1..K |-> Pattern(pat, j)]),
                assignment_id |-> Encode(I, [j \in 1..N |-> Junk(I)]),
                euclidean_distances_t |-> Encode(T, [j \in 1..(K * N) |-> Junk(T)])]
      /\ tasks = <<>>
      /\ done = {ReadyEvent}
      /\ ret = NoReturn
      /\ pre = [mem |-> mem, ntasks |-> 0, args |-> NoArgs]
      /\ wi = <<>>

CallTunedDistances ==
  \E centroids_window_height \in 1..MaxWindow, work_group_size \in 1..MaxBlock :
    /\ ret.n = 0
    /\ HostCall("compute_centroid_to_sample_distances",
                py_compute_distances(arrs.X_t, arrs.centroid_t, arrs.euclidean_distances_t,
                                     work_group_size, centroids_window_height, ExecQueue, {}),
                [op |-> "compute_centroid_to_sample_distances",
                 scalar |-> centroids_window_height, work_group_size |-> work_group_size,
                 badtype |-> FALSE])

CallTunedAssignment ==
  \E centroids_window_height \in 1..MaxWindow, work_group_size \in 1..MaxBlock :
    /\ ret.n = 0
    /\ HostCall("assignment",
                py_assignment(arrs.X_t, arrs.centroid_t, arrs.centroids_half_l2_norm,
                              arrs.assignment_id, centroids_window_height,
                              work_group_size, ExecQueue, {}),
                [op |-> "assignment",
                 scalar |-> centroids_window_height, work_group_size |-> work_group_size,
                 badtype |-> FALSE])

NextTuned ==
  \/ CallTunedDistances
  \/ CallTunedAssignment
  \/ StartDistances
  \/ DistancesItem
  \/ StartAssignment
  \/ AssignmentItem
  \/ FinishKernel
  \/ RunHostTask

SpecTuned == InitTuned /\ [][NextTuned]_vars

EuclideanDistance(k, n) == Load(AssignDataT, mem.euclidean_distances_t, k * AssignSamples + n)

(* The sum over the features of the squared difference between sample n    *)
(* and centroid k.                                                         *)
SquaredDifferences(k, n) ==
  SeqSum([f \in 1..AssignFeatures |->
            (Load(AssignDataT, mem.X_t, (f - 1) * AssignSamples + n)
               - Load(AssignDataT, mem.centroid_t, (f - 1) * AssignClusters + k))
            * (Load(AssignDataT, mem.X_t, (f - 1) * AssignSamples + n)
                 - Load(AssignDataT, mem.centroid_t, (f - 1) * AssignClusters + k))])

(* The id sample n gets from one window holding all the centroids. *)
SingleWindowId(n) ==
  ScanWindow([pc |-> "scan", idx |-> 0, best |-> 0, arg |-> -1],
             [j \in 1..AssignClusters |-> HalfNormMinusDot(n, j - 1)],
             0, AssignClusters).arg

TunedAssignment ==
  /\ Computed
  /\ ret.op = "assignment"
  /\ AssignClusters = 3 /\ pre.args.scalar = 2
  /\ AssignSamples = 3 /\ pre.args.work_group_size = 2
  /\ \E n, o \in 0..2 : AssignedId(n) # AssignedId(o)

----------------------------------------------------------------------------
(* One outer iteration, each call chained on the computation event of the  *)
(* call before it: assignment; the accumulation of the private copies and  *)
(* of the squared distances, which belongs to the caller; reduction;       *)
(* relocation when the reduction counted empty clusters; division of the   *)
(* coordinate sums by the sizes.  relocate_empty_clusters takes the        *)
(* distances and selects the far samples itself, so the threshold and the  *)
(* selected indices of the two selection entry points do not reach it and  *)
(* those two calls are left out.  Weights are 1 or 2, there are at least   *)
(* as many samples as clusters, coordinates are 0 or 4, the centroids are  *)
(* 2, 4, 6, ... in some rotation, and the half-norms are those of the      *)
(* centroids.                                                              *)

InitIteration ==
  \E tp \in TypePairs, K \in 1..MaxCentroids, F \in 1..MaxFeatures, C \in 1..MaxCopies :
    \E N \in K..MaxCentroids, px \in 1..MaxPattern, pc \in 1..MaxPattern, pw \in 1..MaxPattern :
      LET T == tp[1]
          I == tp[2]
          centre == [k \in 1..K |-> 2 * (1 + (((k - 1) * pc) % K))]
      IN
      /\ arrs = [X_t |-> Arr("X_t", <<F, N>>, T),
                 sample_weights |-> Arr("sample_weights", <<N>>, T),
                 old_centroid_t |-> Arr("old_centroid_t", <<F, K>>, T),
                 centroids_half_l2_norm |-> Arr("centroids_half_l2_norm", <<K>>, T),
                 assignment_id |-> Arr("assignment_id", <<N>>, I),
                 sq_dist_to_nearest_centroid |->
                   Arr("sq_dist_to_nearest_centroid", <<N>>, T),
                 per_sample_inertia |-> Arr("per_sample_inertia", <<N>>, T),
                 cluster_sizes_private_copies |->
                   Arr("cluster_sizes_private_copies", <<C, K>>, T),
                 centroids_t_private_copies |->
                   Arr("centroids_t_private_copies", <<C, F, K>>, T),
                 cluster_sizes |-> Arr("cluster_sizes", <<K>>, T),
                 centroid_t |-> Arr("centroid_t", <<F, K>>, T),
                 empty_clusters_list |-> Arr("empty_clusters_list", <<K>>, I),
                 out_n_empty_clusters |-> Arr("out_n_empty_clusters", <<1>>, I)]
      /\ mem = [X_t |-> Encode(T, [j \in 1..(F * N) |->
                                     4 * (1 - Pattern(px, (j - 1) % N))]),
                sample_weights |-> Encode(T, [i \in 1..N |-> 1 + Pattern(pw, i - 1)]),
                old_centroid_t |-> Encode(T, [j \in 1..(F * K) |-> centre[1 + ((j - 1) % K)]]),
                centroids_half_l2_norm |->
                  Encode(T, [k \in 1..K |-> F * ((centre[k] * centre[k]) \div 2)]),
                assignment_id |-> Encode(I, [i \in 1..N |-> Junk(I)]),
                sq_dist_to_nearest_centroid |-> Encode(T, [i \in 1..N |-> Junk(T)]),
                per_sample_inertia |-> Encode(T, [i \in 1..N |-> Junk(T)]),
                cluster_sizes_private_copies |-> Encode(T, [j \in 1..(C * K) |-> 0]),
                centroids_t_private_copies |-> Encode(T, [j \in 1..(C * F * K) |-> 0]),
                cluster_sizes |-> Encode(T, [k \in 1..K |-> Junk(T)]),
                centroid_t |-> Encode(T, [j \in 1..(F * K) |-> Junk(T)]),
                empty_clusters_list |-> Encode(I, [k \in 1..K |-> Junk(I)]),
                out_n_empty_clusters |-> Encode(I, <<Junk(I)>>)]
      /\ tasks = <<>>
      /\ done = {ReadyEvent}
      /\ ret = NoReturn
      /\ pre = [mem |-> mem, ntasks |-> 0, args |-> NoArgs]
      /\ wi = <<>>

IterCopies == get_shape(arrs.cluster_sizes_private_copies, 0)
IterOldCentroid(f, k) == Load(RelocDataT, mem.old_centroid_t, f * RelocClusters + k)

(* The last call returned and its computation is complete. *)
Returned(op) == ret.op = op /\ ~ret.raised /\ ret.comp \in done

IterAssignment ==
  /\ ret.n = 0
  /\ Submit("assignment",
            py_assignment(arrs.X_t, arrs.old_centroid_t, arrs.centroids_half_l2_norm,
                          arrs.assignment_id, 2, 2, ExecQueue, {}),
            [op |-> "assignment", scalar |-> 0, badtype |-> FALSE])

(* The caller's accumulation pass, once the assignment is complete: sample *)
(* i adds its weight and its weighted coordinates to the entries of its    *)
(* cluster in private copy i mod n_copies, and its squared distance to its *)
(* centroid is recorded as its inertia.                                    *)
Accumulate ==
  /\ Returned("assignment")
  /\ LET T == RelocDataT
         N == RelocSamples
         F == RelocFeatures
         K == RelocClusters
         C == IterCopies
         mine(c, k) == {i \in 0..(N - 1) : i % C = c /\ Assigned(mem, i) = k}
         total(S, val(_)) == SeqSum([i \in 1..N |-> IF i - 1 \in S THEN val(i - 1) ELSE 0])
         sizes == [j \in 1..(C * K) |->
                     LET S == mine((j - 1) \div K, (j - 1) % K)
                         val(i) == Weight(mem, i)
                     IN total(S, val)]
         sums == [j \in 1..(C * F * K) |->
                    LET S == mine((j - 1) \div (F * K), (j - 1) % K)
                        val(i) == Weight(mem, i) * Sample(mem, ((j - 1) \div K) % F, i)
                    IN total(S, val)]
         dist == [i \in 1..N |->
                    SeqSum([f \in 1..F |->
                              (Sample(mem, f - 1, i - 1) - IterOldCentroid(f - 1, Assigned(mem, i - 1)))
                              * (Sample(mem, f - 1, i - 1) - IterOldCentroid(f - 1, Assigned(mem, i - 1)))])]
     IN mem' = [mem EXCEPT !.cluster_sizes_private_copies = Encode(T, sizes),
                           !.centroids_t_private_copies = Encode(T, sums),
                           !.sq_dist_to_nearest_centroid = Encode(T, dist),
                           !.per_sample_inertia = Encode(T, dist)]
  /\ ret' = [ret EXCEPT !.n = @ + 1, !.op = "accumulate", !.ht = ReadyEvent, !.comp = ReadyEvent]
  /\ UNCHANGED <<tasks, done, pre, wi, arrs>>

IterReduce ==
  /\ Returned("accumulate")
  /\ Submit("reduce_centroids_data",
            py_reduce_centroids_data(arrs.cluster_sizes_private_copies,
                                     arrs.centroids_t_private_copies, arrs.cluster_sizes,
                                     arrs.centroid_t, arrs.empty_clusters_list,
                                     arrs.out_n_empty_clusters, ExecQueue, {ret.comp}),
            [op |-> "reduce_centroids_data", scalar |-> 0, badtype |-> FALSE])

(* The count of empty clusters the reduction left, read by the caller. *)
IterEmptyCount == Load(RelocIndT, mem.out_n_empty_clusters, 0)

IterRelocate ==
  /\ Returned("reduce_centroids_data")
  /\ IterEmptyCount # 0
  /\ Submit("relocate_empty_clusters",
            py_relocate_empty_clusters(IterEmptyCount, arrs.X_t, arrs.sample_weights,
                                       arrs.assignment_id, arrs.empty_clusters_list,
                                       arrs.sq_dist_to_nearest_centroid, arrs.centroid_t,
                                       arrs.cluster_sizes, arrs.per_sample_inertia,
                                       ExecQueue, {ret.comp}),
            [op |-> "relocate_empty_clusters", scalar |-> IterEmptyCount, badtype |-> FALSE])

IterDivide ==
  /\ \/ Returned("reduce_centroids_data") /\ IterEmptyCount = 0
     \/ ret.op = "relocate_empty_clusters" /\ ~ret.raised
  /\ Submit("broadcast_divide",
            py_broadcast_divide(arrs.centroid_t, arrs.cluster_sizes, ExecQueue, {ret.comp}),
            [op |-> "broadcast_divide", scalar |-> 0, badtype |-> FALSE])

DivideKernel ==
  \E i \in 1..Len(tasks) :
    /\ Idle
    /\ Ready(i)
    /\ tasks[i].kind = "kernel"
    /\ tasks[i].k.name = "broadcast_division_kernel"
    /\ mem' = KernelEffect(tasks[i].k, mem)
    /\ done' = done \cup {i}
    /\ UNCHANGED <<tasks, ret, pre, wi, arrs>>

NextIteration ==
  \/ IterAssignment
  \/ Accumulate
  \/ IterReduce
  \/ IterRelocate
  \/ IterDivide
  \/ StartAssignment
  \/ AssignmentItem
  \/ StartReduce
  \/ ReduceItem
  \/ StartRelocate
  \/ RelocateItem
  \/ DivideKernel
  \/ FinishKernel
  \/ RunHostTask

SpecIteration == InitIteration /\ [][NextIteration]_vars

TotalWeight == SeqSum([i \in 1..RelocSamples |-> Weight(mem, i - 1)])

(* The division has been submitted and the events it depends on are        *)
(* complete: reduction and relocation, if any, are over.                   *)
Relocated ==
  /\ ret.op = "broadcast_divide" /\ ~ret.raised
  /\ tasks[pre.ntasks + 1].deps \subseteq done

(* C16: in an iteration run in this order with positive weights and at     *)
(* least as many samples as clusters, when the coordinate sums are divided *)
(* by the sizes no cluster has size zero, and the sizes sum to the total   *)
(* weight of the samples.                                                  *)
C16_NoEmptyClusterAtDivision ==
  Relocated =>
    /\ \A k \in 0..(RelocClusters - 1) : ClusterSize(mem, k) # 0
    /\ TotalSize(mem) = TotalWeight

(* The sizes do sum to the total weight. *)
IterationWeightConserved == Relocated => TotalSize(mem) = TotalWeight

(* The division ran after a relocation and divided a column by zero. *)
DividedByZero ==
  /\ Returned("broadcast_divide")
  /\ \E k \in 0..(RelocClusters - 1) :
       ClusterSize(mem, k) = 0 /\ Centroid(mem, 0, k) = NonFinite

(* The division ran after a relocation that left no cluster empty. *)
DividedAfterRelocation ==
  /\ Returned("broadcast_divide")
  /\ \E i \in 0..(RelocSamples - 1) : Inertia(mem, i) = 0 /\ Inertia(pre.mem, i) # 0
  /\ \A k \in 0..(RelocClusters - 1) : ClusterSize(mem, k) # 0

=============================================================================
